---- MODULE Spec2Model ----
(***************************************************************************)
(* Model of the job-queue-backed search pipeline of                        *)
(* holiday-destination-finder: the Redis job store (kv_queue.py), the      *)
(* worker loop (worker.py) and the destination orchestrator with its       *)
(* two-pass ranking (main.py, scoring.py).                                 *)
(*                                                                         *)
(* Every Redis command is one atomic step; a Python function that issues   *)
(* several commands (cancel_job, set_done, set_failed, the worker loop)    *)
(* is a sequence of steps that interleave with the other processes.        *)
(***************************************************************************)
EXTENDS Integers, Sequences, FiniteSets, TLC

\* ------------------------------------------------------------------ bounds
\* Largest number of jobs ever enqueued (job ids are 1..MaxJobs, in the
\* order enqueue allocates them; the code draws a fresh uuid4 per job).
MaxJobs == 2
\* Number of rows of the destination catalog read by search_destinations
\* (one more than the polling period, so that a destination follows the one
\* whose callback polls the status).
Total == 11
\* Number of rows of the catalog in the runs whose ranking is modelled.
NumDest == 3
\* Weather cache: distinct cache keys of a run, pool threads that look keys
\* up, and lookups (candidate offers) per thread.
NumKeys == 2
NumThreads == 2
MaxLookups == 2
\* Progress throttle: the last tick of the monotonic clock.
MaxClock == 5
\* Call counters: provider calls each pool thread makes.
MaxCalls == 2
\* The retention window JOB_TTL_S (60 * 60 seconds), in clock ticks.
TtlTicks == 3
\* Provider fan-out: (departure, return) date pairs of the search window.
NumDates == 2
\* Last day number a per-date provider's window ends on.
MaxWindow == 5
\* Longest trip, in days.
MaxTrip == 2
\* Last day number a date-range search ends on.
MaxSpan == 130
\* Progress snapshots: destinations of the catalog of the run.
SnapTotal == 3
\* Scoring inputs: prices are 0..MaxPrice, stop counts run from -NegStops to
\* MaxStops, and BigStops is a very large stop count.
MaxPrice == 5
NegStops == 2
MaxStops == 11
BigStops == 1000

\* -------------------------------------------------------- program constants
\* progress_cb polls the job status when idx % 10 == 0.
PollEvery == 10
\* search_destinations: max_workers = max_workers or 3 (web deployment).
MaxPoolWorkers == 3

JobIds == 1..MaxJobs
AllWorkers == {"w1", "w2"}

Terminal == {"done", "failed", "cancelled"}
ProgressFields == {"processed", "total", "current"}
SubProgressFields == {"origin_airport", "origin_airport_idx", "origin_airport_total"}

\* A job record is a Redis hash: whether the key exists, the value of its
\* "status" field and the names of the other fields it holds.
NoRecord == [exists |-> FALSE, status |-> "none", fields |-> {}]

VARIABLES
    \* ---- job store (kv_queue.py)
    jobs,          \* job id -> record
    queue,         \* the Redis list queue:jobs
    nextId,        \* next fresh job id
    \* ---- worker loop (worker.py), one entry per worker
    workers,       \* the workers that run (fixed by Init)
    wpc,           \* worker -> position in main()
    wjob,          \* worker -> job id popped
    cancelled,     \* worker -> the nonlocal flag of progress_cb
    nextIdx,       \* worker -> next destination index the pool dispatches
    cbPoll,        \* worker -> progress_cb calls about to poll the status
    cbWrite,       \* worker -> progress_cb calls about to call set_progress
    \* ---- one cancel_job call in flight (api.py cancel endpoint)
    cpc,           \* position in cancel_job
    cjob,          \* its job_id
    cread,         \* the status its hget returned
    \* ---- history
    cstart,        \* status of cjob when cancel_job was called
    cancelReq,     \* jobs cancel_job was ever called on
    cancelledQueued,   \* jobs for which cancel_job returned True having read "queued"
    cancelledRunning,  \* jobs for which cancel_job returned True having read "running"
    \* ---- one run of search_destinations (main.py)
    catalog,       \* the destination rows with their fixed upstream responses
    topN,          \* top_n
    done,          \* catalog indices whose future has completed
    results,       \* the list results, in as_completed order
    ranked,        \* the returned list
    rpc,           \* position in search_destinations
    rstatus,       \* the status of the job the run belongs to
    \* ---- the weather cache of one run (main.py, openmeteo.py)
    weather_cache,       \* the dict weather_cache of search_destinations
    module_cache,        \* the module-level dict _CACHE of openmeteo.py
    weather_cache_lock,  \* the thread holding the lock, 0 when it is free
    lpc,           \* thread -> position in the candidate loop
    cache_key,     \* thread -> the key of its current lookup
    weatherInfo,  \* thread -> what its last lookup gave
    ldone,         \* thread -> lookups completed
    calls,         \* key -> get_weather_data calls issued by the cache
    fails,         \* key -> those of them that raised
    first,         \* key -> the value the first successful call returned
    \* ---- one job key and its expiry (kv_queue.py)
    trec,          \* the record of the key job:<id>
    ttl,           \* ticks the key has left, NoTtl when it has no expiry
    tenq,          \* enqueue has run
    tphase,        \* the worker's position in main() for this job
    wcmds,         \* Redis commands the worker's current write has left
    ccmds,         \* Redis commands the cancel_job call in flight has left
    sinceWrite,    \* ticks since the last write command on the key
    lastStatus,    \* the status the key held after the last write command
    dwFault,       \* what the last dual write to the durable store met
    twrote,        \* the terminal writes the worker has made for the job
    \* ---- the provider fan-out of one destination (main.py, providers/)
    fproviders,    \* the providers requested
    apos,          \* get_best_offer_in_window: the next date pair
    offers_a,      \* its list offers, then what fetch_amadeus returned
    alimited,      \* every Amadeus attempt so far was answered 429
    rpos,          \* get_cheapest_ryanair_offer_for_dates: the next date pair
    flights,       \* its list flights (the dates kept)
    offers_r,      \* what fetch_ryanair returned
    wpos,          \* find_cheapest_trip: the next date pair
    offers_w,      \* its list trips, then what fetch_wizzair returned
    wlimited,      \* every Wizz Air attempt so far was answered 429
    fweather,      \* date pair -> the weather response of the destination
    fpc,           \* position: "fetch", "processed", "returned"
    candidates,    \* the merged candidate list
    fresult,       \* what _process_single_destination gave
    fstatus,       \* the status the worker writes when the run ends
    \* ---- calls of the scoring functions (scoring.py)
    sPrice, sPrice2,     \* two flight prices
    sMin, sMax,          \* min_price, max_price
    sStops, sStops2,     \* two stop counts
    sWeather,            \* weather_data
    spc,                 \* which functions have been applied
    outPrice, outPrice2, \* price_score of the two prices
    outPen, outPen2,     \* stop_penalty of the two stop counts
    outTotal, outTotal2, \* total_score of the two prices, with sStops
    outPass1,            \* price_score of a single offer in pass 1
    \* ---- the throttle of progress_cb in one run (worker.py)
    pclock,        \* time.monotonic(), in ticks
    last_update,   \* the nonlocal last_update of progress_cb
    pcancelled,    \* the nonlocal cancelled of progress_cb
    pstatus,       \* the status field of the job's record
    pnext,         \* next destination index the pool hands out
    ppc,           \* pool thread -> position in progress_cb
    pnow,          \* pool thread -> its local now
    prevStamp,     \* now of the set_progress call before the last one
    lastStamp,     \* now of the last set_progress call
    \* ---- one call through a retry wrapper (providers/)
    rwho,          \* the wrapper: "amadeus", "wizzair" or "weather"
    rphase,        \* position: in the loop, back in the caller, finished
    ratt,          \* the loop variable attempt / att
    rattempts,     \* upstream requests issued by this call
    rans,          \* what the upstream answered the last request with
    rlastExc,      \* last_exc: the answer the exception kept stands for
    rlast429,      \* last_was_429
    rall429,       \* every request of this call was answered 429
    rsleeps,       \* the time.sleep durations of this call, in half seconds
    rerr429,       \* increments of the provider's 429 give-up counter
    rerrOther,     \* increments of the provider's other-error counter
    rresult,       \* what the caller of the wrapper ends with
    \* ---- a provider's call counter under the destination pool (providers/)
    CALLS,         \* the counter _CALLS[...] of the provider module
    issued,        \* upstream calls the pool threads have issued
    kpc,           \* pool thread -> position in the increment
    kreg,          \* pool thread -> the value it read from the counter
    kdone,         \* pool thread -> calls it has made
    \* ---- one provider's walk over the date window (providers/)
    dwho,          \* the provider function walking the window
    airport_known, \* Airport[origin] and Airport[destination] exist
    from_date,     \* first departure day of the window, as a day number
    to_date,       \* last return day of the window
    trip_length,   \* days between departure and return
    cursor,        \* the loop variable: d, from_date_dt, current_start
    dlog,          \* the upstream queries issued, as <<first, second>> days
    dpc,           \* "loop", "returned", "raised"
    \* ---- the progress snapshots of one run (worker.py, kv_queue.py)
    sclock,        \* time.monotonic(), in ticks of half a second
    slast,         \* the nonlocal last_update of this run
    snext,         \* idx of the next destination a pool thread takes
    snpc,          \* pool thread -> position in progress_cb
    sidx,          \* pool thread -> the idx its callback was called with
    snow,          \* pool thread -> its local now
    snapshots      \* the (processed, total) pairs HSET so far, in order

storeVars == <<jobs, queue, nextId>>
workerVars == <<workers, wpc, wjob, cancelled, nextIdx, cbPoll, cbWrite>>
cancelVars == <<cpc, cjob, cread, cstart, cancelReq, cancelledQueued, cancelledRunning>>
jobVars == <<storeVars, workerVars, cancelVars>>
rankVars == <<catalog, topN, done, results, ranked, rpc, rstatus>>
wxVars == <<weather_cache, module_cache, weather_cache_lock, lpc, cache_key,
            weatherInfo, ldone, calls, fails, first>>
ttlVars == <<trec, ttl, tenq, tphase, wcmds, ccmds, sinceWrite, lastStatus,
             dwFault, twrote>>
fanVars == <<fproviders, apos, offers_a, alimited, rpos, flights, offers_r,
             wpos, offers_w, wlimited, fweather, fpc, candidates, fresult,
             fstatus>>
scoreVars == <<sPrice, sPrice2, sMin, sMax, sStops, sStops2, sWeather, spc,
               outPrice, outPrice2, outPen, outPen2, outTotal, outTotal2,
               outPass1>>
progVars == <<pclock, last_update, pcancelled, pstatus, pnext, ppc, pnow,
              prevStamp, lastStamp>>
retryVars == <<rwho, rphase, ratt, rattempts, rans, rlastExc, rlast429, rall429,
               rsleeps, rerr429, rerrOther, rresult>>
cntVars == <<CALLS, issued, kpc, kreg, kdone>>
dateVars == <<dwho, airport_known, from_date, to_date, trip_length, cursor, dlog, dpc>>
snapVars == <<sclock, slast, snext, snpc, sidx, snow, snapshots>>
vars == <<jobVars, rankVars, wxVars, ttlVars, fanVars, scoreVars, progVars,
          retryVars, cntVars, dateVars, snapVars>>

\* Variables the job-store specification leaves alone.
notJobVars == <<rankVars, wxVars, ttlVars, fanVars, scoreVars, progVars,
                retryVars, cntVars, dateVars, snapVars>>
\* Variables the ranking specification leaves alone.
notRankVars == <<jobVars, wxVars, ttlVars, fanVars, scoreVars, progVars,
                 retryVars, cntVars, dateVars, snapVars>>
\* Variables the weather-cache specification leaves alone.
notWxVars == <<jobVars, rankVars, ttlVars, fanVars, scoreVars, progVars,
               retryVars, cntVars, dateVars, snapVars>>
\* Variables the expiry specification leaves alone.
notTtlVars == <<jobVars, rankVars, wxVars, fanVars, scoreVars, progVars,
                retryVars, cntVars, dateVars, snapVars>>
\* Variables the provider fan-out specification leaves alone.
notFanVars == <<jobVars, rankVars, wxVars, ttlVars, scoreVars, progVars,
                retryVars, cntVars, dateVars, snapVars>>
\* Variables the scoring specification leaves alone.
notScoreVars == <<jobVars, rankVars, wxVars, ttlVars, fanVars, progVars,
                  retryVars, cntVars, dateVars, snapVars>>
\* Variables the progress-throttle specification leaves alone.
notProgVars == <<jobVars, rankVars, wxVars, ttlVars, fanVars, scoreVars,
                 retryVars, cntVars, dateVars, snapVars>>
\* Variables the retry-wrapper specification leaves alone.
notRetryVars == <<jobVars, rankVars, wxVars, ttlVars, fanVars, scoreVars,
                  progVars, cntVars, dateVars, snapVars>>
\* Variables the call-counter specification leaves alone.
notCntVars == <<jobVars, rankVars, wxVars, ttlVars, fanVars, scoreVars,
                progVars, retryVars, dateVars, snapVars>>
\* Variables the date-window specifications leave alone.
notDateVars == <<jobVars, rankVars, wxVars, ttlVars, fanVars, scoreVars,
                 progVars, retryVars, cntVars, snapVars>>
\* Variables the progress-snapshot specification leaves alone.
notSnapVars == <<jobVars, rankVars, wxVars, ttlVars, fanVars, scoreVars,
                 progVars, retryVars, cntVars, dateVars>>

\* ------------------------------------------------------- Redis primitives
\* LPUSH in place of RPUSH: the id goes to the head of the list.
lpush(q, j) == <<j>> \o q
\* RPUSH: append to the tail of the list.
rpush(q, j) == Append(q, j)
\* An LREM that removes nothing.
lrem_keep(q, j) == q
\* LREM key 0 value: remove every occurrence of the value.
lrem(q, j) == SelectSeq(q, LAMBDA x : x # j)
\* HSET with a mapping that holds "status" and the fields `names`
\* (HSET creates the key when it does not exist).
hset_status(rec, s, names) ==
    [exists |-> TRUE, status |-> s, fields |-> rec.fields \cup names]
\* HSET with a mapping that holds only the fields `names`.
hset_fields(rec, names) ==
    [rec EXCEPT !.exists = TRUE, !.fields = @ \cup names]
\* HDEL of the fields `names` (nothing to do on a missing key).
hdel(rec, names) ==
    IF rec.exists THEN [rec EXCEPT !.fields = @ \ names] ELSE rec

\* ------------------------------------------------- kv_queue.py operations
\* Every write is followed by r.expire(key, JOB_TTL_S), which only renews
\* the retention window: in the job-store specification no record outlives
\* its window, so r.exists and get_job find every enqueued record and the
\* EXPIRE commands change nothing that is modelled. Redis commands do not
\* fail.
\* enqueue: the mapping written by r.hset(key, mapping=mapping).
enqueue_record == hset_status(NoRecord, "queued", {"created_at", "params"})
\* set_running: r.hset(key, "status", "running").
set_running(rec) == hset_status(rec, "running", {})
\* set_done that writes the status and forgets the payload.
set_done_no_result(rec) == hset_status(rec, "done", {})
\* set_done: r.hset(key, mapping={"status": "done", "result": ...}).
set_done_hset(rec) == hset_status(rec, "done", {"result"})
\* set_failed that writes the error and forgets the status.
set_failed_no_status(rec) == hset_fields(rec, {"error"})
\* set_failed: r.hset(key, mapping={"status": "failed", "error": error}).
set_failed_hset(rec) == hset_status(rec, "failed", {"error"})
\* set_done / set_failed: r.hdel(key, "processed", "total", "current").
clear_progress(rec) == hdel(rec, ProgressFields)
\* set_progress as progress_cb calls it: city and airport are given, the
\* origin-airport arguments keep their default None.
set_progress(rec) == hset_fields(rec, ProgressFields)
\* cancel_job: r.hset(job_key, mapping={"status": "cancelled"}).
cancel_hset(rec) == hset_status(rec, "cancelled", {})

\* --------------------------------------------------------------- enqueue
\* enqueue(params): HSET the record, EXPIRE, RPUSH the id.  The id is a
\* fresh uuid that no other process knows before enqueue returns, so the
\* three commands are one step for every observer.
Enqueue ==
    /\ nextId <= MaxJobs
    /\ jobs' = [jobs EXCEPT ![nextId] = enqueue_record]
    /\ queue' = rpush(queue, nextId)
    /\ nextId' = nextId + 1
    /\ UNCHANGED <<workerVars, cancelVars, notJobVars>>

\* ------------------------------------------------------------ cancel_job
\* cancel_job(job_id), first command: r.lrem(QUEUE, 0, job_id).
CancelLrem(j) ==
    /\ cpc = "idle"
    /\ j < nextId
    /\ queue' = lrem(queue, j)
    /\ cpc' = "exists"
    /\ cjob' = j
    /\ cstart' = jobs[j].status
    /\ cancelReq' = cancelReq \cup {j}
    /\ UNCHANGED <<jobs, nextId, workerVars, cread, cancelledQueued,
                   cancelledRunning, notJobVars>>

\* if not r.exists(job_key): return False
CancelExists ==
    /\ cpc = "exists"
    /\ IF jobs[cjob].exists
         THEN cpc' = "hget" /\ UNCHANGED <<cjob, cstart>>
         ELSE cpc' = "idle" /\ cjob' = 0 /\ cstart' = "none"
    /\ UNCHANGED <<storeVars, workerVars, cread, cancelReq,
                   cancelledQueued, cancelledRunning, notJobVars>>

\* status = r.hget(job_key, "status"); if status in ("queued", "running")
CancelHget ==
    /\ cpc = "hget"
    /\ IF jobs[cjob].status \in {"queued", "running"}
         THEN /\ cpc' = "hset"
              /\ cread' = jobs[cjob].status
              /\ UNCHANGED <<cjob, cstart>>
         ELSE \* return False
              /\ cpc' = "idle"
              /\ cjob' = 0 /\ cread' = "none" /\ cstart' = "none"
    /\ UNCHANGED <<storeVars, workerVars, cancelReq,
                   cancelledQueued, cancelledRunning, notJobVars>>

\* r.hset(job_key, mapping={"status": "cancelled"}); r.expire; return True
CancelHset ==
    /\ cpc = "hset"
    /\ jobs' = [jobs EXCEPT ![cjob] = cancel_hset(@)]
    /\ cpc' = "idle"
    /\ cancelledQueued' =
         IF cread = "queued" THEN cancelledQueued \cup {cjob} ELSE cancelledQueued
    /\ cancelledRunning' =
         IF cread = "running" THEN cancelledRunning \cup {cjob} ELSE cancelledRunning
    /\ cjob' = 0 /\ cread' = "none" /\ cstart' = "none"
    /\ UNCHANGED <<queue, nextId, workerVars, cancelReq, notJobVars>>

CancelStep == CancelExists \/ CancelHget \/ CancelHset

\* ------------------------------------------------------ worker.py main()
\* A read of the head of the list that leaves it there.
blpop_peek(q) == q
\* BLPOP removes the head it returns, in one command.
blpop_rest(q) == Tail(q)

\* item = r.blpop(QUEUE, timeout=10): pop the head of the list (a timeout
\* on the empty list loops back to the same call).
Pop(w) ==
    /\ wpc[w] = "pop"
    /\ queue # <<>>
    /\ wjob' = [wjob EXCEPT ![w] = Head(queue)]
    /\ queue' = blpop_rest(queue)
    /\ wpc' = [wpc EXCEPT ![w] = "get_job"]
    /\ UNCHANGED <<jobs, nextId, workers, cancelled, nextIdx, cbPoll, cbWrite,
                   cancelVars, notJobVars>>

\* job_data = get_job(job_id)
\* if not job_data or job_data.get("status") == "cancelled": continue
GetJob(w) ==
    /\ wpc[w] = "get_job"
    /\ IF ~jobs[wjob[w]].exists \/ jobs[wjob[w]].status = "cancelled"
         THEN wpc' = [wpc EXCEPT ![w] = "pop"] /\ wjob' = [wjob EXCEPT ![w] = 0]
         ELSE wpc' = [wpc EXCEPT ![w] = "set_running"] /\ UNCHANGED wjob
    /\ UNCHANGED <<storeVars, workers, cancelled, nextIdx, cbPoll, cbWrite,
                   cancelVars, notJobVars>>

\* set_running(job_id); the parameters are read and parsed; last_update and
\* cancelled are initialised; search_destinations is entered.
SetRunning(w) ==
    /\ wpc[w] = "set_running"
    /\ jobs' = [jobs EXCEPT ![wjob[w]] = set_running(@)]
    /\ wpc' = [wpc EXCEPT ![w] = "orch"]
    /\ cancelled' = [cancelled EXCEPT ![w] = FALSE]
    /\ nextIdx' = [nextIdx EXCEPT ![w] = 1]
    /\ UNCHANGED <<queue, nextId, workers, wjob, cbPoll, cbWrite,
                   cancelVars, notJobVars>>

\* Number of pool threads of this run that are inside progress_cb.
InCallback(w) == cbPoll[w] + cbWrite[w]

\* now - last_update >= 1.0: the clock is not modelled, either outcome may
\* happen. TRUE: the callback goes on to set_progress.
Throttle == {TRUE, FALSE}

\* A pool thread takes the next destination (ThreadPoolExecutor hands the
\* submitted tasks out in catalog order) and _process_single_destination
\* calls progress_cb(idx, total, city, airport) first.
CbStart(w) ==
    /\ wpc[w] = "orch"
    /\ nextIdx[w] <= Total
    /\ InCallback(w) < MaxPoolWorkers
    /\ nextIdx' = [nextIdx EXCEPT ![w] = @ + 1]
    /\ IF nextIdx[w] % PollEvery = 0
         THEN /\ cbPoll' = [cbPoll EXCEPT ![w] = @ + 1]
              /\ UNCHANGED cbWrite
         ELSE /\ \E write \in Throttle :
                   cbWrite' = [cbWrite EXCEPT ![w] = IF write THEN @ + 1 ELSE @]
              /\ UNCHANGED cbPoll
    /\ UNCHANGED <<storeVars, workers, wpc, wjob, cancelled, cancelVars, notJobVars>>

\* progress_cb with idx % 10 == 0: job_status = r.hget(key, "status");
\* if job_status == "cancelled": cancelled = True; return
CbPoll(w) ==
    /\ wpc[w] = "orch"
    /\ cbPoll[w] > 0
    /\ cbPoll' = [cbPoll EXCEPT ![w] = @ - 1]
    /\ IF jobs[wjob[w]].status = "cancelled"
         THEN /\ cancelled' = [cancelled EXCEPT ![w] = TRUE]
              /\ UNCHANGED cbWrite
         ELSE /\ \E write \in Throttle :
                   cbWrite' = [cbWrite EXCEPT ![w] = IF write THEN @ + 1 ELSE @]
              /\ UNCHANGED cancelled
    /\ UNCHANGED <<storeVars, workers, wpc, wjob, nextIdx, cancelVars, notJobVars>>

\* progress_cb: set_progress(job_id, idx, total, city, airport, None, None, None)
CbWrite(w) ==
    /\ wpc[w] = "orch"
    /\ cbWrite[w] > 0
    /\ cbWrite' = [cbWrite EXCEPT ![w] = @ - 1]
    /\ jobs' = [jobs EXCEPT ![wjob[w]] = set_progress(@)]
    /\ UNCHANGED <<queue, nextId, workers, wpc, wjob, cancelled, nextIdx, cbPoll,
                   cancelVars, notJobVars>>

\* search_destinations returns: the pool has been joined, so every
\* destination has run and no callback is in flight.
OrchReturn(w) ==
    /\ wpc[w] = "orch"
    /\ nextIdx[w] = Total + 1
    /\ InCallback(w) = 0
    /\ wpc' = [wpc EXCEPT ![w] = "final_check"]
    /\ UNCHANGED <<storeVars, workers, wjob, cancelled, nextIdx, cbPoll, cbWrite,
                   cancelVars, notJobVars>>

\* An exception reaches the except clause of main(): raised before the pool
\* starts (parameter parsing, reading the catalog) or after it was joined
\* (ranking); exceptions of the destination tasks are caught in the pool loop.
OrchRaise(w) ==
    /\ wpc[w] = "orch"
    /\ nextIdx[w] \in {1, Total + 1}
    /\ InCallback(w) = 0
    /\ wpc' = [wpc EXCEPT ![w] = "exc_check"]
    /\ UNCHANGED <<storeVars, workers, wjob, cancelled, nextIdx, cbPoll, cbWrite,
                   cancelVars, notJobVars>>

\* job_status = r.hget(key, "status")
\* if job_status == "cancelled" or cancelled: continue
FinalCheck(w) ==
    /\ wpc[w] = "final_check"
    /\ IF jobs[wjob[w]].status = "cancelled" \/ cancelled[w]
         THEN wpc' = [wpc EXCEPT ![w] = "pop"] /\ wjob' = [wjob EXCEPT ![w] = 0]
         ELSE wpc' = [wpc EXCEPT ![w] = "set_done"] /\ UNCHANGED wjob
    /\ cancelled' = [cancelled EXCEPT ![w] = FALSE]
    /\ nextIdx' = [nextIdx EXCEPT ![w] = 0]
    /\ UNCHANGED <<storeVars, workers, cbPoll, cbWrite, cancelVars, notJobVars>>

\* set_done(job_id, payload): r.hset(key, mapping={"status": "done", "result": ...})
SetDoneHset(w) ==
    /\ wpc[w] = "set_done"
    /\ jobs' = [jobs EXCEPT ![wjob[w]] = set_done_hset(@)]
    /\ wpc' = [wpc EXCEPT ![w] = "done_hdel"]
    /\ UNCHANGED <<queue, nextId, workers, wjob, cancelled, nextIdx, cbPoll, cbWrite,
                   cancelVars, notJobVars>>

\* set_done: r.hdel(key, "processed", "total", "current"); r.expire; the
\* dual-write reads the record and catches its own errors.
SetDoneHdel(w) ==
    /\ wpc[w] = "done_hdel"
    /\ jobs' = [jobs EXCEPT ![wjob[w]] = clear_progress(@)]
    /\ wpc' = [wpc EXCEPT ![w] = "pop"]
    /\ wjob' = [wjob EXCEPT ![w] = 0]
    /\ UNCHANGED <<queue, nextId, workers, cancelled, nextIdx, cbPoll, cbWrite,
                   cancelVars, notJobVars>>

\* except Exception: job_status = r.hget(key, "status")
\* if job_status != "cancelled": set_failed(...)
ExcCheck(w) ==
    /\ wpc[w] = "exc_check"
    /\ IF jobs[wjob[w]].status # "cancelled"
         THEN wpc' = [wpc EXCEPT ![w] = "set_failed"] /\ UNCHANGED wjob
         ELSE wpc' = [wpc EXCEPT ![w] = "pop"] /\ wjob' = [wjob EXCEPT ![w] = 0]
    /\ cancelled' = [cancelled EXCEPT ![w] = FALSE]
    /\ nextIdx' = [nextIdx EXCEPT ![w] = 0]
    /\ UNCHANGED <<storeVars, workers, cbPoll, cbWrite, cancelVars, notJobVars>>

\* set_failed(job_id, error): r.hset(key, mapping={"status": "failed", "error": error})
SetFailedHset(w) ==
    /\ wpc[w] = "set_failed"
    /\ jobs' = [jobs EXCEPT ![wjob[w]] = set_failed_hset(@)]
    /\ wpc' = [wpc EXCEPT ![w] = "failed_hdel"]
    /\ UNCHANGED <<queue, nextId, workers, wjob, cancelled, nextIdx, cbPoll, cbWrite,
                   cancelVars, notJobVars>>

\* set_failed: r.hdel(key, "processed", "total", "current"); r.expire; dual-write.
SetFailedHdel(w) ==
    /\ wpc[w] = "failed_hdel"
    /\ jobs' = [jobs EXCEPT ![wjob[w]] = clear_progress(@)]
    /\ wpc' = [wpc EXCEPT ![w] = "pop"]
    /\ wjob' = [wjob EXCEPT ![w] = 0]
    /\ UNCHANGED <<queue, nextId, workers, cancelled, nextIdx, cbPoll, cbWrite,
                   cancelVars, notJobVars>>

WorkerStep(w) ==
    \/ Pop(w) \/ GetJob(w) \/ SetRunning(w)
    \/ CbStart(w) \/ CbPoll(w) \/ CbWrite(w) \/ OrchReturn(w) \/ OrchRaise(w)
    \/ FinalCheck(w) \/ SetDoneHset(w) \/ SetDoneHdel(w)
    \/ ExcCheck(w) \/ SetFailedHset(w) \/ SetFailedHdel(w)

\* ---------------------------------------------------------- specification
RankOff ==
    /\ catalog = <<>> /\ topN = 0 /\ done = {} /\ results = <<>>
    /\ ranked = <<>> /\ rpc = "off" /\ rstatus = "none"

\* No weather lookup runs.
WxKeys == 1..NumKeys
Threads == 1..NumThreads
NoEntry == [ok |-> FALSE]
WxOff ==
    /\ weather_cache = [k \in WxKeys |-> NoEntry]
    /\ module_cache = [k \in WxKeys |-> NoEntry]
    /\ weather_cache_lock = 0
    /\ lpc = [t \in Threads |-> "off"]
    /\ cache_key = [t \in Threads |-> 0]
    /\ weatherInfo = [t \in Threads |-> NoEntry]
    /\ ldone = [t \in Threads |-> 0]
    /\ calls = [k \in WxKeys |-> 0]
    /\ fails = [k \in WxKeys |-> 0]
    /\ first = [k \in WxKeys |-> NoEntry]

\* No expiry is tracked.
NoTtl == 0 - 1
TtlOff ==
    /\ trec = NoRecord /\ ttl = NoTtl /\ tenq = FALSE /\ tphase = "off"
    /\ wcmds = <<>> /\ ccmds = <<>> /\ sinceWrite = 0 /\ lastStatus = "none"
    /\ dwFault = "none" /\ twrote = {}

\* No provider fan-out runs.
FanOff ==
    /\ fproviders = {} /\ apos = 0 /\ offers_a = <<>> /\ alimited = FALSE
    /\ rpos = 0 /\ flights = <<>> /\ offers_r = <<>>
    /\ wpos = 0 /\ offers_w = <<>> /\ wlimited = FALSE
    /\ fweather = <<>> /\ fpc = "off" /\ candidates = <<>>
    /\ fresult = [found |-> FALSE, raised |-> FALSE] /\ fstatus = "none"

\* No scoring call is made.
NoScore == [num |-> 0, den |-> 1]
ScoreOff ==
    /\ sPrice = 0 /\ sPrice2 = 0 /\ sMin = 0 /\ sMax = 0
    /\ sStops = 0 /\ sStops2 = 0 /\ sWeather = [ok |-> FALSE] /\ spc = "off"
    /\ outPrice = NoScore /\ outPrice2 = NoScore
    /\ outPen = NoScore /\ outPen2 = NoScore
    /\ outTotal = NoScore /\ outTotal2 = NoScore /\ outPass1 = NoScore

\* No progress callback runs.
NoStamp == 0 - 1
ProgOff ==
    /\ pclock = 0 /\ last_update = 0 /\ pcancelled = FALSE /\ pstatus = "none"
    /\ pnext = 0
    /\ ppc = [t \in Threads |-> "off"]
    /\ pnow = [t \in Threads |-> 0]
    /\ prevStamp = NoStamp /\ lastStamp = NoStamp

\* No retry wrapper runs.
RetryOff ==
    /\ rwho = "none" /\ rphase = "off" /\ ratt = 0 /\ rattempts = 0
    /\ rans = "none" /\ rlastExc = "none" /\ rlast429 = FALSE
    /\ rall429 = TRUE /\ rsleeps = <<>> /\ rerr429 = 0 /\ rerrOther = 0
    /\ rresult = "none"

\* No provider call is counted.
CntOff ==
    /\ CALLS = 0 /\ issued = 0
    /\ kpc = [t \in Threads |-> "off"]
    /\ kreg = [t \in Threads |-> 0]
    /\ kdone = [t \in Threads |-> 0]

\* No provider walks a date window.
DateOff ==
    /\ dwho = "none" /\ airport_known = TRUE
    /\ from_date = 0 /\ to_date = 0 /\ trip_length = 1
    /\ cursor = 0 /\ dlog = <<>> /\ dpc = "returned"

\* No run writes progress snapshots.
SnapOff ==
    /\ sclock = 0 /\ slast = 0 /\ snext = 0
    /\ snpc = [t \in Threads |-> "off"]
    /\ sidx = [t \in Threads |-> 0]
    /\ snow = [t \in Threads |-> 0]
    /\ snapshots = <<>>

JobInit ==
    /\ jobs = [j \in JobIds |-> NoRecord]
    /\ queue = <<>>
    /\ nextId = 1
    /\ wpc = [w \in AllWorkers |-> "pop"]
    /\ wjob = [w \in AllWorkers |-> 0]
    /\ cancelled = [w \in AllWorkers |-> FALSE]
    /\ nextIdx = [w \in AllWorkers |-> 0]
    /\ cbPoll = [w \in AllWorkers |-> 0]
    /\ cbWrite = [w \in AllWorkers |-> 0]
    /\ cpc = "idle" /\ cjob = 0 /\ cread = "none" /\ cstart = "none"
    /\ cancelReq = {} /\ cancelledQueued = {} /\ cancelledRunning = {}

\* One worker process: the deployment the spec assumes (api.py starts one
\* embedded worker thread and asks for uvicorn --workers 1).
Init ==
    /\ JobInit /\ workers = {"w1"}
    /\ RankOff /\ WxOff /\ TtlOff /\ FanOff /\ ScoreOff /\ ProgOff /\ RetryOff /\ CntOff /\ DateOff /\ SnapOff

Next ==
    \/ Enqueue
    \/ \E j \in JobIds : CancelLrem(j)
    \/ CancelExists
    \/ CancelHget
    \/ CancelHset
    \/ \E w \in workers : Pop(w)
    \/ \E w \in workers : GetJob(w)
    \/ \E w \in workers : SetRunning(w)
    \/ \E w \in workers : CbStart(w)
    \/ \E w \in workers : CbPoll(w)
    \/ \E w \in workers : CbWrite(w)
    \/ \E w \in workers : OrchReturn(w)
    \/ \E w \in workers : OrchRaise(w)
    \/ \E w \in workers : FinalCheck(w)
    \/ \E w \in workers : SetDoneHset(w)
    \/ \E w \in workers : SetDoneHdel(w)
    \/ \E w \in workers : ExcCheck(w)
    \/ \E w \in workers : SetFailedHset(w)
    \/ \E w \in workers : SetFailedHdel(w)

Spec == Init /\ [][Next]_vars

\* Two worker processes on the same Redis list: api.py started under
\* uvicorn --workers 2, or a second `python -m ...worker` process.
InitTwoWorkers ==
    /\ JobInit /\ workers = AllWorkers
    /\ RankOff /\ WxOff /\ TtlOff /\ FanOff /\ ScoreOff /\ ProgOff /\ RetryOff /\ CntOff /\ DateOff /\ SnapOff

\* search_destinations(..., progress_cb=progress_cb) from its first
\* destination to the join of the pool, taken as one step: the callbacks
\* touch neither the queue nor the worker's job id. They may have written
\* progress, and may have seen the job cancelled if it is.
OrchRun(w) ==
    /\ wpc[w] = "orch"
    /\ nextIdx[w] = 1
    /\ nextIdx' = [nextIdx EXCEPT ![w] = Total + 1]
    /\ \E write \in Throttle :
         jobs' = IF write THEN [jobs EXCEPT ![wjob[w]] = set_progress(@)]
                 ELSE jobs
    /\ \E seen \in BOOLEAN :
         cancelled' = [cancelled EXCEPT
                         ![w] = seen /\ jobs[wjob[w]].status = "cancelled"]
    /\ UNCHANGED <<queue, nextId, workers, wpc, wjob, cbPoll, cbWrite,
                   cancelVars, notJobVars>>

TwoWorkerNext ==
    \/ Enqueue
    \/ \E j \in JobIds : CancelLrem(j)
    \/ CancelExists
    \/ CancelHget
    \/ CancelHset
    \/ \E w \in workers : Pop(w)
    \/ \E w \in workers : GetJob(w)
    \/ \E w \in workers : SetRunning(w)
    \/ \E w \in workers : OrchRun(w)
    \/ \E w \in workers : OrchReturn(w)
    \/ \E w \in workers : OrchRaise(w)
    \/ \E w \in workers : FinalCheck(w)
    \/ \E w \in workers : SetDoneHset(w)
    \/ \E w \in workers : SetDoneHdel(w)
    \/ \E w \in workers : ExcCheck(w)
    \/ \E w \in workers : SetFailedHset(w)
    \/ \E w \in workers : SetFailedHdel(w)

TwoWorkerSpec == InitTwoWorkers /\ [][TwoWorkerNext]_vars

\* Fairness of the job processes: a worker that can take a step takes one
\* (the loop never blocks but in blpop, every orchestration run returns or
\* raises), and a cancel_job call that has started runs to its return.
\* Nothing forces a client to enqueue or to cancel.
LiveSpec ==
    /\ Spec
    /\ \A w \in AllWorkers : WF_vars(w \in workers /\ WorkerStep(w))
    /\ WF_vars(CancelStep)

\* ------------------------------------------------------------ properties
InQueue(j) == \E i \in 1..Len(queue) : queue[i] = j

\* The status moves the state machine of the worker allows.
AllowedMoves ==
    { <<"queued", "running">>, <<"running", "done">>, <<"running", "failed">>,
      <<"queued", "cancelled">>, <<"running", "cancelled">> }

\* C1: a job's status changes only along queued->running, running->done,
\* running->failed, queued->cancelled, running->cancelled; a status of done,
\* failed or cancelled never changes again.
C1_StatusMoves ==
    [][\A j \in JobIds :
         (jobs[j].exists /\ jobs'[j].status # jobs[j].status)
            => <<jobs[j].status, jobs'[j].status>> \in AllowedMoves]_vars

\* C2: once cancel_job has returned True for a job it read as queued, the
\* id is not in the queue, no worker marks the job running and no worker
\* enters the orchestrator for it.
C2_CancelledQueuedNeverRuns ==
    [][\A j \in cancelledQueued :
         /\ ~InQueue(j)'
         /\ (jobs'[j].status = "running" => jobs[j].status = "running")
         /\ \A w \in workers :
              (wjob'[w] = j /\ wpc'[w] = "orch") => wpc[w] = "orch"]_vars

\* C3: once cancel_job has returned True for a job it read as running, the
\* status is never set to done and no result payload is written.
C3_CancelledRunningNeverDone ==
    [][\A j \in cancelledRunning :
         /\ (jobs'[j].status = "done" => jobs[j].status = "done")
         /\ ("result" \in jobs'[j].fields => "result" \in jobs[j].fields)]_vars

\* C4: once cancel_job has returned True for a running job, the progress
\* callback of the worker running it performs no set_progress write.
C4_NoProgressAfterCancel ==
    [][\A w \in workers :
         wjob[w] \in cancelledRunning => ~(cbWrite'[w] < cbWrite[w])]_vars

\* C5: a cancel_job call made on a job whose status is done, failed or
\* cancelled returns False (it never reaches its hset) and none of its steps
\* changes the job's record or the queue.
C5_CancelTerminalNoOp ==
    [][LET j == IF cpc = "idle" THEN cjob' ELSE cjob
           st == IF cpc = "idle" THEN jobs[j].status ELSE cstart
       IN (cpc' # cpc /\ st \in Terminal)
            => (jobs'[j] = jobs[j] /\ queue' = queue /\ cpc' # "hset")]_vars

\* C6: a record with status done holds a result and no error; a record
\* with status failed holds an error and no result.
C6_PayloadXorError ==
    \A j \in JobIds :
        /\ jobs[j].status = "done"
             => ("result" \in jobs[j].fields /\ "error" \notin jobs[j].fields)
        /\ jobs[j].status = "failed"
             => ("error" \in jobs[j].fields /\ "result" \notin jobs[j].fields)

C6_Witness ==
    \E j, k \in JobIds : jobs[j].status = "done" /\ jobs[k].status = "failed"

\* The worker is between the hset and the hdel of set_done / set_failed.
MidTerminalWrite(j) ==
    \E w \in workers : wjob[w] = j /\ wpc[w] \in {"done_hdel", "failed_hdel"}

\* C7: a record whose status is done, failed or cancelled (the write that
\* made it so being complete) holds no progress field and no sub-progress
\* field.
C7_ProgressCleared ==
    \A j \in JobIds :
        (jobs[j].status \in Terminal /\ ~MidTerminalWrite(j))
            => jobs[j].fields \cap (ProgressFields \cup SubProgressFields) = {}

\* C8: of two jobs enqueued one after the other, neither of them the
\* target of a cancel_job call, the later one is popped only after the
\* earlier one was marked running.
C8_Fifo ==
    \A j1, j2 \in JobIds :
        (j1 < j2 /\ j2 < nextId /\ j1 \notin cancelReq /\ j2 \notin cancelReq
            /\ ~InQueue(j2))
        => jobs[j1].status \in {"running", "done", "failed"}

C8_Witness ==
    /\ nextId > 2 /\ cancelReq = {} /\ ~InQueue(2)
    /\ jobs[1].status \in {"done", "failed"}
    /\ \E w \in workers : wjob[w] = 2 /\ wpc[w] = "get_job"

\* C9: under LiveSpec every job that is queued or running eventually has
\* status done, failed or cancelled.
C9_EveryJobEnds ==
    \A j \in JobIds :
        (jobs[j].status \in {"queued", "running"}) ~> (jobs[j].status \in Terminal)

C9_Witness ==
    /\ nextId = MaxJobs + 1
    /\ jobs[1].status = "cancelled" /\ 1 \in cancelledRunning
    /\ \A j \in JobIds \ {1} : jobs[j].status \in {"done", "failed"}
    /\ \A w \in workers : wpc[w] = "pop"
    /\ queue = <<>>

\* =========================================================================
\* scoring.py: the score of one offer.  Python floats are modelled as exact
\* rationals [num, den] with den > 0, kept in lowest terms.
\* =========================================================================
RECURSIVE Gcd(_, _)
Gcd(a, b) == IF b = 0 THEN a ELSE Gcd(b, a % b)
Abs(x) == IF x < 0 THEN -x ELSE x
Rat(n, d) ==
    LET g == Gcd(Abs(n), d) IN [num |-> n \div g, den |-> d \div g]
RInt(n) == [num |-> n, den |-> 1]
RLe(a, b) == a.num * b.den <= b.num * a.den
RLt(a, b) == a.num * b.den < b.num * a.den
RAdd(a, b) == Rat(a.num * b.den + b.num * a.den, a.den * b.den)
RSub(a, b) == Rat(a.num * b.den - b.num * a.den, a.den * b.den)
RMul(a, b) == Rat(a.num * b.num, a.den * b.den)
RMax(a, b) == IF RLt(a, b) THEN b ELSE a
RMin(a, b) == IF RLt(b, a) THEN b ELSE a
RAbs(a) == [num |-> Abs(a.num), den |-> a.den]

\* A stop penalty without the floor of 0.5.
stop_penalty_unfloored(total_stops) ==
    LET stops == IF total_stops < 0 THEN 0 ELSE total_stops
    IN RSub(RInt(1), Rat(stops, 10))
\* stop_penalty(total_stops): max(0.5, 1.0 - 0.1 * max(0, int(total_stops)))
stop_penalty(total_stops) ==
    LET stops == IF total_stops < 0 THEN 0 ELSE total_stops
    IN RMax(Rat(1, 2), RSub(RInt(1), Rat(stops, 10)))

\* A price score that grows with the price.
price_score_rising(price, min_price, max_price) ==
    IF max_price = min_price THEN RInt(100)
    ELSE LET norm0 == Rat(price - min_price, max_price - min_price)
             norm == RMax(RInt(0), RMin(RInt(1), norm0))
         IN RAdd(RInt(50), RMul(RInt(50), norm))
\* A price score that gives the midpoint when the price range is empty.
price_score_flat_half(price, min_price, max_price) ==
    IF max_price = min_price THEN RInt(50)
    ELSE LET norm0 == Rat(price - min_price, max_price - min_price)
             norm == RMax(RInt(0), RMin(RInt(1), norm0))
         IN RSub(RInt(100), RMul(RInt(50), norm))
\* price_score(price, min_price, max_price)
price_score(price, min_price, max_price) ==
    IF max_price = min_price THEN RInt(100)
    ELSE LET norm0 == Rat(price - min_price, max_price - min_price)
             norm == RMax(RInt(0), RMin(RInt(1), norm0))
             score == RSub(RInt(100), RMul(RInt(50), norm))
         IN RMax(RInt(0), RMin(RInt(100), score))

\* weather_score(weather)
weather_score(weather) ==
    LET temp == weather.avg_temp_c
        rain == weather.avg_precip_mm_per_day
        temp_score ==
            RMax(RInt(0), RSub(RInt(100), RMul(RInt(3), RAbs(RSub(temp, RInt(26))))))
        effective_rain ==
            IF RLt(rain, Rat(2, 10)) THEN RInt(0)
            ELSE IF RLt(rain, RInt(1)) THEN Rat(1, 2)
            ELSE rain
        rain_score == RMax(RInt(0), RSub(RInt(100), RMul(effective_rain, RInt(15))))
    IN RAdd(RMul(Rat(6, 10), temp_score), RMul(Rat(4, 10), rain_score))

\* total_score(weather_data, flight_price, total_stops, min_price, max_price)
total_score(weather_data, flight_price, total_stops, min_price, max_price) ==
    LET p == RMul(price_score(flight_price, min_price, max_price),
                  stop_penalty(total_stops))
        w == weather_score(weather_data)
    IN RAdd(RMul(Rat(4, 10), p), RMul(Rat(6, 10), w))

\* =========================================================================
\* main.py: one run of search_destinations over a fixed catalog with fixed
\* provider and weather responses.
\* =========================================================================
\* Upstream weather responses: a failed fetch, or the data of a summary.
WeatherFail == [ok |-> FALSE]
Warm == [ok |-> TRUE, avg_temp_c |-> RInt(26), avg_precip_mm_per_day |-> RInt(0)]
Cold == [ok |-> TRUE, avg_temp_c |-> RInt(16), avg_precip_mm_per_day |-> RInt(2)]

\* A candidate offer (price, curr, stops, airline, dep, ret): the fields
\* the ranking reads. ret is dep + trip_length.
Offer(price, stops, dep) ==
    [price |-> price, stops |-> stops, dep |-> dep, len |-> 6]
\* None in the price slot of a tuple.
NoPrice == 0 - 1
\* The 4-tuple (price, currency, stops, airlines) of
\* get_cheapest_offer_for_dates: it carries no dates.
Tuple4(price, stops) == [price |-> price, stops |-> stops, dep |-> 0, len |-> 4]
DepDates == {1, 2}
WeatherMap(w1, w2) == [d \in DepDates |-> IF d = 1 THEN w1 ELSE w2]

\* The catalog rows the runs draw from: the merged candidate list the
\* provider fan-out returns for the destination and the weather response of
\* each (lat, lon, dep, ret) key of the destination.
Rows ==
    { [offers |-> <<>>, weather |-> WeatherMap(Warm, Warm)],
      [offers |-> <<Offer(80, 0, 1)>>, weather |-> WeatherMap(Warm, Warm)],
      [offers |-> <<Offer(80, 0, 1)>>, weather |-> WeatherMap(WeatherFail, Warm)],
      [offers |-> <<Offer(140, 0, 1)>>, weather |-> WeatherMap(Warm, Warm)],
      [offers |-> <<Offer(100, 1, 1)>>, weather |-> WeatherMap(Cold, Cold)],
      [offers |-> <<Offer(100, 0, 1), Offer(140, 0, 2)>>,
       weather |-> WeatherMap(Warm, Warm)],
      [offers |-> <<Offer(100, 0, 1), Offer(100, 0, 2)>>,
       weather |-> WeatherMap(Cold, Warm)],
      [offers |-> <<Offer(80, 0, 1), Offer(140, 1, 2)>>,
       weather |-> WeatherMap(WeatherFail, Cold)],
      [offers |-> <<Tuple4(NoPrice, 0), Offer(80, 0, 1)>>,
       weather |-> WeatherMap(Warm, Warm)] }

RECURSIVE SeqMin(_, _)
SeqMin(xs, i) ==
    IF i = Len(xs) THEN xs[i]
    ELSE LET m == SeqMin(xs, i + 1) IN IF xs[i] < m THEN xs[i] ELSE m
RECURSIVE SeqMax(_, _)
SeqMax(xs, i) ==
    IF i = Len(xs) THEN xs[i]
    ELSE LET m == SeqMax(xs, i + 1) IN IF xs[i] > m THEN xs[i] ELSE m

NoBest == [found |-> FALSE, raised |-> FALSE]
\* _process_single_destination raises.
Raised == [found |-> FALSE, raised |-> TRUE]

\* The loop of _process_single_destination over the candidates from the
\* i-th on, `best` being (best_tup, best_score, best_weather) so far: an
\* offer whose weather fetch fails is skipped, a strictly higher pass-1
\* score replaces the best.
RECURSIVE BestFrom(_, _, _, _, _)
BestFrom(row, i, loc_min_price, loc_max_price, best) ==
    IF i > Len(row.offers) THEN best
    ELSE LET o == row.offers[i]
             weather_info == row.weather[o.dep]
             score == total_score(weather_info, o.price, o.stops,
                                  loc_min_price, loc_max_price)
         IN IF ~weather_info.ok
              THEN BestFrom(row, i + 1, loc_min_price, loc_max_price, best)
            ELSE IF ~best.found \/ RLt(best.score, score)
              THEN BestFrom(row, i + 1, loc_min_price, loc_max_price,
                            [found |-> TRUE, tup |-> o, score |-> score,
                             weather |-> weather_info])
            ELSE BestFrom(row, i + 1, loc_min_price, loc_max_price, best)

\* _process_single_destination(row, idx, ...): the result dict, or NoBest
\* for None. `city` is the row's identity, its place in the catalog.
process_single_destination(row, idx) ==
    IF row.offers = <<>> THEN NoBest
    ELSE IF \E k \in 1..Len(row.offers) : row.offers[k].price = NoPrice
      THEN Raised  \* float(tup[0]) of a None price: TypeError
    ELSE IF \E k \in 1..Len(row.offers) : row.offers[k].len # 6
      THEN Raised  \* the loop unpacks six values: ValueError
    ELSE LET price_list == [k \in 1..Len(row.offers) |-> row.offers[k].price]
             best == BestFrom(row, 1, SeqMin(price_list, 1), SeqMax(price_list, 1),
                              NoBest)
         IN IF best.found
              THEN [found |-> TRUE,
                    raised |-> FALSE,
                    city |-> idx,
                    flight_price |-> best.tup.price,
                    total_stops |-> best.tup.stops,
                    best_departure |-> best.tup.dep,
                    weather_data |-> best.weather]
              ELSE NoBest

\* list.sort(key=score, reverse=True) is stable: x goes behind every element
\* whose score is not lower.
RECURSIVE InsertByScore(_, _)
InsertByScore(sorted, x) ==
    IF sorted = <<>> THEN <<x>>
    ELSE IF RLt(Head(sorted).score, x.score) THEN <<x>> \o sorted
    ELSE <<Head(sorted)>> \o InsertByScore(Tail(sorted), x)
\* A sort that leaves the list in the order it has.
keep_order(xs, sorted) == sorted \o xs
RECURSIVE SortByScore(_, _)
SortByScore(xs, sorted) ==
    IF xs = <<>> THEN sorted
    ELSE SortByScore(Tail(xs), InsertByScore(sorted, Head(xs)))

Min2(a, b) == IF a < b THEN a ELSE b

\* A tail of search_destinations that scores each result against its own
\* price alone, the range a destination with one offer has in pass 1.
rank_results_local(res, top_n) ==
    LET scored == [k \in 1..Len(res) |->
                     [city |-> res[k].city,
                      flight_price |-> res[k].flight_price,
                      total_stops |-> res[k].total_stops,
                      best_departure |-> res[k].best_departure,
                      score |-> total_score(res[k].weather_data,
                                            res[k].flight_price,
                                            res[k].total_stops,
                                            res[k].flight_price,
                                            res[k].flight_price)]]
        sorted == SortByScore(scored, <<>>)
    IN SubSeq(sorted, 1, Min2(top_n, Len(sorted)))

\* The tail of search_destinations: the global price range, the second
\* scoring pass, the sort and the cut to top_n.
rank_results(res, top_n) ==
    IF res = <<>> THEN <<>>
    ELSE LET prices == [k \in 1..Len(res) |-> res[k].flight_price]
             min_price == SeqMin(prices, 1)
             max_price == SeqMax(prices, 1)
             scored == [k \in 1..Len(res) |->
                          [city |-> res[k].city,
                           flight_price |-> res[k].flight_price,
                           total_stops |-> res[k].total_stops,
                           best_departure |-> res[k].best_departure,
                           score |-> total_score(res[k].weather_data,
                                                 res[k].flight_price,
                                                 res[k].total_stops,
                                                 min_price, max_price)]]
             sorted == SortByScore(scored, <<>>)
         IN SubSeq(sorted, 1, Min2(top_n, Len(sorted)))

\* Destinations whose task a pool thread has taken: the pool runs
\* max_workers tasks at a time and takes them in catalog order.
Started(i) == Cardinality({k \in 1..(i - 1) : k \notin done}) < MaxPoolWorkers

\* for future in as_completed(futures): the future of destination i
\* completes; a result that is not None is appended to results, a task that
\* raised is logged and adds nothing.
DestComplete(i) ==
    /\ rpc = "pool"
    /\ i \notin done
    /\ Started(i)
    /\ done' = done \cup {i}
    /\ LET result == process_single_destination(catalog[i], i)
       IN results' = IF result.found THEN Append(results, result) ELSE results
    /\ UNCHANGED <<catalog, topN, ranked, rpc, rstatus, notRankVars>>

\* A test for an empty price list that never finds it empty.
no_prices_never(prices) == FALSE
\* `if not prices`.
no_prices(prices) == prices = <<>>

\* What search_destinations does with the collected results: the list it
\* returns, or the exception of min() on an empty list.
search_outcome(res, top_n) ==
    IF no_prices(res) THEN [raised |-> FALSE, list |-> <<>>]
    ELSE IF res = <<>> THEN [raised |-> TRUE, list |-> <<>>]
    ELSE [raised |-> FALSE, list |-> rank_results(res, top_n)]

\* The pool is joined; search_destinations ranks and returns.
Rank ==
    /\ rpc = "pool"
    /\ done = 1..NumDest
    /\ LET out == search_outcome(results, topN)
       IN /\ ranked' = out.list
          /\ rpc' = IF out.raised THEN "raised" ELSE "returned"
    /\ UNCHANGED <<catalog, topN, done, results, rstatus, notRankVars>>

\* The worker after search_destinations (the job is not cancelled):
\* set_done with the returned list as payload["results"], set_failed when
\* the call raised.
RankWorkerEnd ==
    /\ rpc \in {"returned", "raised"}
    /\ rstatus' = IF rpc = "returned" THEN "done" ELSE "failed"
    /\ rpc' = "ended"
    /\ UNCHANGED <<catalog, topN, done, results, ranked, notRankVars>>

JobOff ==
    /\ jobs = [j \in JobIds |-> NoRecord] /\ queue = <<>> /\ nextId = 1
    /\ workers = {}
    /\ wpc = [w \in AllWorkers |-> "pop"] /\ wjob = [w \in AllWorkers |-> 0]
    /\ cancelled = [w \in AllWorkers |-> FALSE]
    /\ nextIdx = [w \in AllWorkers |-> 0]
    /\ cbPoll = [w \in AllWorkers |-> 0] /\ cbWrite = [w \in AllWorkers |-> 0]
    /\ cpc = "idle" /\ cjob = 0 /\ cread = "none" /\ cstart = "none"
    /\ cancelReq = {} /\ cancelledQueued = {} /\ cancelledRunning = {}

RankInit ==
    /\ catalog \in [1..NumDest -> Rows]
    /\ topN \in 1..NumDest
    /\ done = {} /\ results = <<>> /\ ranked = <<>> /\ rpc = "pool"
    /\ rstatus = "running"
    /\ JobOff /\ WxOff /\ TtlOff /\ FanOff /\ ScoreOff /\ ProgOff /\ RetryOff /\ CntOff /\ DateOff /\ SnapOff

RankNext ==
    \/ \E i \in 1..NumDest : DestComplete(i)
    \/ Rank
    \/ RankWorkerEnd

RankSpec == RankInit /\ [][RankNext]_vars

\* The results search_destinations would collect if the futures completed
\* in catalog order.
RECURSIVE InCatalogOrder(_)
InCatalogOrder(i) ==
    IF i > NumDest THEN <<>>
    ELSE LET result == process_single_destination(catalog[i], i)
         IN (IF result.found THEN <<result>> ELSE <<>>) \o InCatalogOrder(i + 1)

\* C10: whatever the order in which the destination futures complete, the
\* returned list is the one a run completing in catalog order returns, and
\* results of equal final score appear in catalog order.
C10_RankingDeterministic ==
    rpc = "returned" =>
        /\ ranked = rank_results(InCatalogOrder(1), topN)
        /\ \A a, b \in 1..Len(ranked) :
             (a < b /\ ranked[a].score = ranked[b].score)
                => ranked[a].city < ranked[b].city

\* =========================================================================
\* main.py / openmeteo.py: the weather cache of one search_destinations run.
\* Pool threads run the candidate loop of _process_single_destination; each
\* iteration looks one cache key up inside `with weather_cache_lock:`.
\* =========================================================================
\* The summaries the upstream weather source may answer with.
WxValues == {Warm, Cold}

\* A membership test that never finds the key.
cache_miss_always(cache, key) == TRUE
\* `cache_key not in weather_cache` / `key in _CACHE` (negated).
cache_miss(cache, key) == ~cache[key].ok

\* with weather_cache_lock: a thread whose loop has a next candidate, with
\* cache key k, takes the lock when no thread holds it.
WxAcquire(t, k) ==
    /\ lpc[t] = "loop"
    /\ ldone[t] < MaxLookups
    /\ weather_cache_lock = 0
    /\ weather_cache_lock' = t
    /\ cache_key' = [cache_key EXCEPT ![t] = k]
    /\ lpc' = [lpc EXCEPT ![t] = "locked"]
    /\ UNCHANGED <<weather_cache, module_cache, weatherInfo, ldone, calls,
                   fails, first, notWxVars>>

\* The key is in weather_cache: weather_info = weather_cache[cache_key], the
\* with block ends and releases the lock.
WxHit(t) ==
    /\ lpc[t] = "locked"
    /\ ~cache_miss(weather_cache, cache_key[t])
    /\ weatherInfo' = [weatherInfo EXCEPT ![t] = weather_cache[cache_key[t]]]
    /\ ldone' = [ldone EXCEPT ![t] = @ + 1]
    /\ weather_cache_lock' = 0
    /\ lpc' = [lpc EXCEPT ![t] = "loop"]
    /\ UNCHANGED <<weather_cache, module_cache, cache_key, calls, fails, first,
                   notWxVars>>

\* The key is not in weather_cache: get_weather_data is called, the lock
\* still held.
WxMiss(t) ==
    /\ lpc[t] = "locked"
    /\ cache_miss(weather_cache, cache_key[t])
    /\ calls' = [calls EXCEPT ![cache_key[t]] = @ + 1]
    /\ lpc' = [lpc EXCEPT ![t] = "fetch"]
    /\ UNCHANGED <<weather_cache, module_cache, weather_cache_lock, cache_key,
                   weatherInfo, ldone, fails, first, notWxVars>>

\* get_weather_data returns: the entry of _CACHE when the key is there,
\* else a summary computed from the upstream answer, which it stores in
\* _CACHE. The caller stores it in weather_cache, reads it back as
\* weather_info and leaves the with block.
WxFetchReturn(t) ==
    /\ lpc[t] = "fetch"
    /\ \E v \in WxValues :
         LET k == cache_key[t]
             result == IF cache_miss(module_cache, k) THEN v ELSE module_cache[k]
         IN /\ module_cache' = [module_cache EXCEPT ![k] = result]
            /\ weather_cache' = [weather_cache EXCEPT ![k] = result]
            /\ weatherInfo' = [weatherInfo EXCEPT ![t] = result]
            /\ first' = [first EXCEPT ![k] = IF @.ok THEN @ ELSE result]
    /\ ldone' = [ldone EXCEPT ![t] = @ + 1]
    /\ weather_cache_lock' = 0
    /\ lpc' = [lpc EXCEPT ![t] = "loop"]
    /\ UNCHANGED <<cache_key, calls, fails, notWxVars>>

\* An except clause that stores an entry for the key.
cache_on_raise_entry(cache, key) == [cache EXCEPT ![key] = Cold]
\* except Exception: ...; continue -- weather_cache is left as it is.
cache_on_raise(cache, key) == cache

\* get_weather_data raises (the retries are used up, or the answer is
\* malformed): nothing is stored, `continue` skips the candidate and leaves
\* the with block.
WxFetchRaise(t) ==
    /\ lpc[t] = "fetch"
    /\ cache_miss(module_cache, cache_key[t])
    /\ fails' = [fails EXCEPT ![cache_key[t]] = @ + 1]
    /\ weatherInfo' = [weatherInfo EXCEPT ![t] = NoEntry]
    /\ ldone' = [ldone EXCEPT ![t] = @ + 1]
    /\ weather_cache_lock' = 0
    /\ lpc' = [lpc EXCEPT ![t] = "loop"]
    /\ weather_cache' = cache_on_raise(weather_cache, cache_key[t])
    /\ UNCHANGED <<module_cache, cache_key, calls, first, notWxVars>>

\* A run starts with an empty weather_cache; _CACHE holds what earlier runs
\* of the same process left in it.
WxInit ==
    /\ weather_cache = [k \in WxKeys |-> NoEntry]
    /\ module_cache \in [WxKeys -> WxValues \cup {NoEntry}]
    /\ weather_cache_lock = 0
    /\ lpc = [t \in Threads |-> "loop"]
    /\ cache_key = [t \in Threads |-> 0]
    /\ weatherInfo = [t \in Threads |-> NoEntry]
    /\ ldone = [t \in Threads |-> 0]
    /\ calls = [k \in WxKeys |-> 0]
    /\ fails = [k \in WxKeys |-> 0]
    /\ first = [k \in WxKeys |-> NoEntry]
    /\ JobOff /\ RankOff /\ TtlOff /\ FanOff /\ ScoreOff /\ ProgOff /\ RetryOff /\ CntOff /\ DateOff /\ SnapOff

WxNext ==
    \/ \E t \in Threads, k \in WxKeys : WxAcquire(t, k)
    \/ \E t \in Threads : WxHit(t)
    \/ \E t \in Threads : WxMiss(t)
    \/ \E t \in Threads : WxFetchReturn(t)
    \/ \E t \in Threads : WxFetchRaise(t)

WxSpec == WxInit /\ [][WxNext]_vars

\* C11: for a key held by weather_cache the cache has issued exactly one
\* get_weather_data call besides those that raised (exactly one when no
\* fetch of the key failed), the entry is the value that call returned, and
\* every lookup of the key that completed with a value returned that value.
C11_OneFetchPerKey ==
    /\ \A k \in WxKeys :
         ~cache_miss(weather_cache, k)
            => (calls[k] = fails[k] + 1 /\ weather_cache[k] = first[k])
    /\ \A t \in Threads :
         (lpc[t] = "loop" /\ weatherInfo[t].ok)
            => weatherInfo[t] = first[cache_key[t]]

\* Both threads have looked the same key up twice, no fetch of it failed.
C11_Witness ==
    \E k \in WxKeys :
        /\ ~cache_miss(weather_cache, k)
        /\ fails[k] = 0 /\ calls[k] = 1
        /\ \A t \in Threads :
             /\ lpc[t] = "loop" /\ ldone[t] = MaxLookups
             /\ cache_key[t] = k /\ weatherInfo[t] = first[k]
        /\ \A k2 \in WxKeys \ {k} : calls[k2] = 0

\* =========================================================================
\* kv_queue.py: the expiry of one job key.  Time passes in ticks, the
\* retention window JOB_TTL_S is TtlTicks of them.  HSET, HDEL and EXPIRE are
\* separate commands, and time may pass between any two of them.
\* =========================================================================
\* EXPIRE that leaves the expiry as it is.
expire_noop(rec, t) == t
\* r.expire(key, JOB_TTL_S): an existing key gets the full window.
expire(rec, t) == IF rec.exists THEN TtlTicks ELSE t
\* The expiry after an HSET: that of the key when it existed, none for the
\* key the HSET creates.
hset_ttl(rec, t) == IF rec.exists THEN t ELSE NoTtl
\* A get_job that finds a record under every key.
get_job_always(rec) == TRUE
\* get_job(job_id): r.hgetall(key) or None; TRUE when a record is returned.
get_job(rec) == rec.exists

\* A write command has run: what every such step records.
Wrote(rec) ==
    /\ trec' = rec
    /\ sinceWrite' = 0
    /\ lastStatus' = rec.status

\* enqueue(params): hset, expire and rpush of a fresh id.
TtlEnqueue ==
    /\ ~tenq
    /\ tenq' = TRUE
    /\ Wrote(enqueue_record)
    /\ ttl' = expire(enqueue_record, hset_ttl(NoRecord, NoTtl))
    /\ tphase' = "get_job"
    /\ UNCHANGED <<wcmds, ccmds, dwFault, twrote, notTtlVars>>

\* One tick of time: a key whose expiry runs out is deleted.
Tick ==
    /\ sinceWrite <= TtlTicks
    /\ sinceWrite' = sinceWrite + 1
    /\ IF ttl = 1
         THEN trec' = NoRecord /\ ttl' = NoTtl
         ELSE trec' = trec /\ ttl' = (IF ttl = NoTtl THEN NoTtl ELSE ttl - 1)
    /\ UNCHANGED <<tenq, tphase, wcmds, ccmds, lastStatus, dwFault, twrote,
                   notTtlVars>>

\* worker main(): job_data = get_job(job_id) after the pop; a record that
\* is gone or cancelled is skipped: `continue` takes the loop back to blpop
\* (position "skipped", the job's id is not seen again).
TtlGetJob ==
    /\ tphase = "get_job"
    /\ tphase' = IF ~get_job(trec) \/ trec.status = "cancelled"
                   THEN "skipped" ELSE "set_running"
    /\ UNCHANGED <<trec, ttl, tenq, wcmds, ccmds, sinceWrite, lastStatus,
                   dwFault, twrote, notTtlVars>>

\* set_running: the hset; the expire is left.
TtlSetRunning ==
    /\ tphase = "set_running"
    /\ Wrote(set_running(trec))
    /\ ttl' = hset_ttl(trec, ttl)
    /\ wcmds' = <<"expire">>
    /\ tphase' = "orch"
    /\ UNCHANGED <<tenq, ccmds, dwFault, twrote, notTtlVars>>

\* progress_cb calls set_progress: the hset; the expire is left.
TtlSetProgress ==
    /\ tphase = "orch" /\ wcmds = <<>>
    /\ Wrote(set_progress(trec))
    /\ ttl' = hset_ttl(trec, ttl)
    /\ wcmds' = <<"expire">>
    /\ UNCHANGED <<tenq, tphase, ccmds, dwFault, twrote, notTtlVars>>

\* search_destinations returns or raises.
TtlOrchEnd ==
    /\ tphase = "orch" /\ wcmds = <<>>
    /\ tphase' \in {"final_check", "exc_check"}
    /\ UNCHANGED <<trec, ttl, tenq, wcmds, ccmds, sinceWrite, lastStatus,
                   dwFault, twrote, notTtlVars>>

\* The status checks before set_done and before set_failed: a job read as
\* cancelled gets neither.
TtlStatusCheck ==
    /\ tphase \in {"final_check", "exc_check"}
    /\ tphase' = IF trec.exists /\ trec.status = "cancelled" THEN "finished"
                 ELSE IF tphase = "final_check" THEN "set_done" ELSE "set_failed"
    /\ UNCHANGED <<trec, ttl, tenq, wcmds, ccmds, sinceWrite, lastStatus,
                   dwFault, twrote, notTtlVars>>

\* set_done / set_failed: the hset; the hdel, the expire and the dual
\* write to the durable store are left.
TtlSetTerminal ==
    /\ tphase \in {"set_done", "set_failed"}
    /\ Wrote(IF tphase = "set_done" THEN set_done_hset(trec)
             ELSE set_failed_hset(trec))
    /\ ttl' = hset_ttl(trec, ttl)
    /\ wcmds' = <<"hdel", "expire", "dual_write">>
    /\ twrote' = twrote \cup {IF tphase = "set_done" THEN "done" ELSE "failed"}
    /\ tphase' = IF tphase = "set_done" THEN "in_set_done" ELSE "in_set_failed"
    /\ UNCHANGED <<tenq, ccmds, dwFault, notTtlVars>>

\* The worker's next command: the hdel of set_done / set_failed, or the
\* expire that ends every write to the key.
TtlWorkerCmd ==
    /\ wcmds # <<>> /\ Head(wcmds) \in {"hdel", "expire"}
    /\ IF Head(wcmds) = "hdel"
         THEN Wrote(clear_progress(trec)) /\ ttl' = ttl
         ELSE Wrote(trec) /\ ttl' = expire(trec, ttl)
    /\ wcmds' = Tail(wcmds)
    /\ UNCHANGED <<tenq, tphase, ccmds, dwFault, twrote, notTtlVars>>

\* What the dual write of set_done / set_failed may meet.
DualWriteFaults ==
    { "none", "no_module", "get_job_raises", "record_gone", "no_client_id",
      "json_raises", "save_raises", "save_returns_false" }

\* A dual write whose exceptions leave set_done / set_failed.
dual_write_unguarded(fault) ==
    IF fault \in {"get_job_raises", "json_raises", "save_raises"} THEN "raised"
    ELSE IF fault \in {"none", "save_returns_false"} THEN "called"
    ELSE "skipped"
\* The dual-write block of set_done / set_failed: skipped without the
\* module, the record, the client_id or the params; an exception of get_job
\* is caught by the outer try, one of json.loads or save_search_result by the
\* inner one; each is logged.
dual_write(fault) ==
    IF fault \in {"no_module", "record_gone", "no_client_id"} THEN "skipped"
    ELSE IF fault = "get_job_raises" THEN "logged"
    ELSE IF fault \in {"json_raises", "save_raises"} THEN "logged"
    ELSE "called"

\* The dual write that ends set_done / set_failed. The call returns unless
\* an exception leaves it: one out of set_done is caught by the except
\* clause of the worker, which goes on to its status check and set_failed;
\* one out of set_failed leaves main().
TtlDualWrite ==
    /\ wcmds # <<>> /\ Head(wcmds) = "dual_write"
    /\ \E fault \in DualWriteFaults :
         /\ dwFault' = fault
         /\ tphase' = IF dual_write(fault) # "raised" THEN "finished"
                      ELSE IF tphase = "in_set_done" THEN "exc_check"
                      ELSE "crashed"
    /\ wcmds' = Tail(wcmds)
    /\ UNCHANGED <<trec, ttl, tenq, ccmds, sinceWrite, lastStatus, twrote,
                   notTtlVars>>

\* cancel_job is called: the lrem.
TtlCancelStart ==
    /\ tenq /\ ccmds = <<>>
    /\ ccmds' = <<"exists", "hget">>
    /\ UNCHANGED <<trec, ttl, tenq, tphase, wcmds, sinceWrite, lastStatus,
                   dwFault, twrote, notTtlVars>>

\* cancel_job: r.exists(job_key); a missing key ends the call.
TtlCancelExists ==
    /\ ccmds # <<>> /\ Head(ccmds) = "exists"
    /\ ccmds' = IF trec.exists THEN Tail(ccmds) ELSE <<>>
    /\ UNCHANGED <<trec, ttl, tenq, tphase, wcmds, sinceWrite, lastStatus,
                   dwFault, twrote, notTtlVars>>

\* cancel_job: the hget of the status and, when it is queued or running,
\* the decision to write.
TtlCancelHget ==
    /\ ccmds # <<>> /\ Head(ccmds) = "hget"
    /\ ccmds' = IF trec.exists /\ trec.status \in {"queued", "running"}
                  THEN <<"hset", "expire">> ELSE <<>>
    /\ UNCHANGED <<trec, ttl, tenq, tphase, wcmds, sinceWrite, lastStatus,
                   dwFault, twrote, notTtlVars>>

\* cancel_job: the hset of the status, then the expire.
TtlCancelWrite ==
    /\ ccmds # <<>> /\ Head(ccmds) \in {"hset", "expire"}
    /\ IF Head(ccmds) = "hset"
         THEN Wrote(cancel_hset(trec)) /\ ttl' = hset_ttl(trec, ttl)
         ELSE Wrote(trec) /\ ttl' = expire(trec, ttl)
    /\ ccmds' = Tail(ccmds)
    /\ UNCHANGED <<tenq, tphase, wcmds, dwFault, twrote, notTtlVars>>

TtlInit ==
    /\ trec = NoRecord /\ ttl = NoTtl /\ tenq = FALSE /\ tphase = "pop"
    /\ wcmds = <<>> /\ ccmds = <<>> /\ sinceWrite = 0 /\ lastStatus = "none"
    /\ dwFault = "none" /\ twrote = {}
    /\ JobOff /\ RankOff /\ WxOff /\ FanOff /\ ScoreOff /\ ProgOff /\ RetryOff /\ CntOff /\ DateOff /\ SnapOff

TtlNext ==
    \/ TtlEnqueue
    \/ Tick
    \/ TtlGetJob
    \/ TtlSetRunning
    \/ TtlSetProgress
    \/ TtlOrchEnd
    \/ TtlStatusCheck
    \/ TtlSetTerminal
    \/ TtlWorkerCmd
    \/ TtlDualWrite
    \/ TtlCancelStart
    \/ TtlCancelExists
    \/ TtlCancelHget
    \/ TtlCancelWrite

TtlSpec == TtlInit /\ [][TtlNext]_vars

\* A write is between its first command and its expire.
WriteInFlight ==
    \/ \E i \in 1..Len(wcmds) : wcmds[i] = "expire"
    \/ (ccmds # <<>> /\ Head(ccmds) = "expire")

FanDates == 1..NumDates
Providers == {"amadeus", "ryanair", "wizzair"}

\* _get_with_retries(..., max_retries=3): the loop runs max_retries + 1 times.
AmadeusMaxRetries == 3
\* _search_with_retries(filters, max_retries=5).
WizzMaxRetries == 5

\* The status codes the Amadeus upstream answers the attempts of one
\* request with.
All429 == <<429, 429, 429, 429>>
AmadeusAnswers ==
    { <<200, 200, 200, 200>>, All429, <<429, 429, 200, 200>>,
      <<400, 400, 400, 400>>, <<500, 500, 500, 500>> }
\* The list data["data"] of a successful answer.
AmadeusData == { <<>>, <<[price |-> 140, stops |-> 1]>> }

\* _get_with_retries: the response (raised = FALSE) or the HTTPError raised,
\* with its status code.
RECURSIVE get_with_retries(_, _, _)
get_with_retries(codes, attempt, last_exc) ==
    IF attempt > AmadeusMaxRetries THEN [raised |-> TRUE, status |-> last_exc]
    ELSE LET status_code == codes[attempt + 1]
         IN IF status_code < 400
              THEN [raised |-> FALSE, status |-> status_code]
            ELSE IF status_code \in {429, 500, 502, 503, 504}
              THEN get_with_retries(codes, attempt + 1, status_code)
            ELSE [raised |-> TRUE, status |-> status_code]

\* min(offers, key=price): the first offer of the lowest price.
RECURSIVE MinByPrice(_, _)
MinByPrice(offers, i) ==
    IF i = Len(offers) THEN offers[i]
    ELSE LET m == MinByPrice(offers, i + 1)
         IN IF offers[i].price <= m.price THEN offers[i] ELSE m

\* get_cheapest_offer_for_dates: the 4-tuple returned, or the exception
\* re-raised. A request still rate-limited after the retries and an answer
\* without offers both give (None, None, None, None).
get_cheapest_offer_for_dates(codes, data) ==
    LET resp == get_with_retries(codes, 0, 0)
    IN IF resp.raised
         THEN [raised |-> resp.status # 429, tup |-> Tuple4(NoPrice, 0)]
       ELSE IF data = <<>>
         THEN [raised |-> FALSE, tup |-> Tuple4(NoPrice, 0)]
       ELSE LET best == MinByPrice(data, 1)
            IN [raised |-> FALSE, tup |-> Tuple4(best.price, best.stops)]

\* One turn of the loop of get_best_offer_in_window: two calls of
\* get_cheapest_offer_for_dates, the tuple of the second is appended to
\* offers. An exception leaves the function; fetch_amadeus catches it and
\* returns [].
AmadeusDate ==
    /\ fpc = "fetch" /\ "amadeus" \in fproviders /\ apos <= NumDates
    /\ \E c1, c2 \in AmadeusAnswers, d1, d2 \in AmadeusData :
         LET call1 == get_cheapest_offer_for_dates(c1, d1)
             call2 == get_cheapest_offer_for_dates(c2, d2)
         IN /\ IF call1.raised \/ call2.raised
                 THEN offers_a' = <<>> /\ apos' = NumDates + 1
                 ELSE offers_a' = Append(offers_a, call2.tup) /\ apos' = apos + 1
            /\ alimited' = (alimited /\ c1 = All429 /\ c2 = All429)
    /\ UNCHANGED <<fproviders, rpos, flights, offers_r, wpos, offers_w, wlimited,
                   fweather, fpc, candidates, fresult, fstatus, notFanVars>>

\* One turn of the loop of get_cheapest_ryanair_offer_for_dates: the
\* flights found for the date pair are kept when there are any.
RyanairDate ==
    /\ fpc = "fetch" /\ "ryanair" \in fproviders /\ rpos <= NumDates
    /\ \E temp_flights \in BOOLEAN :
         flights' = IF temp_flights THEN Append(flights, rpos) ELSE flights
    /\ rpos' = rpos + 1
    /\ UNCHANGED <<fproviders, apos, offers_a, alimited, offers_r, wpos,
                   offers_w, wlimited, fweather, fpc, candidates, fresult,
                   fstatus, notFanVars>>

\* find_cheapest_offer(trip_list): None for no flights; with flights, the
\* first turn of its loop reads the names currency, dep and ret, which are
\* not bound there, and raises.
find_cheapest_offer(trip_list) ==
    IF trip_list = <<>> THEN [raised |-> FALSE, offers |-> <<>>]
    ELSE [raised |-> TRUE, offers |-> <<>>]

\* fetch_ryanair: find_cheapest_offer on the flights kept; an exception
\* gives [], and so does None (result or []).
RyanairFinish ==
    /\ fpc = "fetch" /\ "ryanair" \in fproviders /\ rpos = NumDates + 1
    /\ offers_r' = find_cheapest_offer(flights).offers
    /\ rpos' = rpos + 1
    /\ UNCHANGED <<fproviders, apos, offers_a, alimited, flights, wpos, offers_w,
                   wlimited, fweather, fpc, candidates, fresult, fstatus,
                   notFanVars>>

\* What SearchFlights().search does at each attempt of one search.
AllLimited == <<"429", "429", "429", "429", "429", "429">>
WizzAnswers ==
    { <<"ok", "ok", "ok", "ok", "ok", "ok">>, AllLimited,
      <<"429", "429", "ok", "ok", "ok", "ok">>,
      <<"err", "err", "err", "err", "err", "err">> }
\* The price of the first flight found, 0 for an empty result list.
WizzData == {0, 80, 100}

\* _search_with_retries: TRUE when the search returned its results, FALSE
\* for None.
RECURSIVE search_with_retries(_, _)
search_with_retries(outs, att) ==
    IF att > WizzMaxRetries THEN FALSE
    ELSE IF outs[att + 1] = "ok" THEN TRUE
    ELSE IF outs[att + 1] = "429" THEN search_with_retries(outs, att + 1)
    ELSE FALSE

\* trips.sort(key=lambda x: x[0]): stable, ascending price.
RECURSIVE InsertByPrice(_, _)
InsertByPrice(sorted, x) ==
    IF sorted = <<>> THEN <<x>>
    ELSE IF x.price < Head(sorted).price THEN <<x>> \o sorted
    ELSE <<Head(sorted)>> \o InsertByPrice(Tail(sorted), x)
RECURSIVE SortByPrice(_, _)
SortByPrice(xs, sorted) ==
    IF xs = <<>> THEN sorted
    ELSE SortByPrice(Tail(xs), InsertByPrice(sorted, Head(xs)))

\* One turn of the loop of _find_cheapest_trip_simple: a search that gave
\* up or found nothing skips the date pair, a flight found is appended as a
\* 6-tuple; after the last date pair the trips are sorted.
WizzDate ==
    /\ fpc = "fetch" /\ "wizzair" \in fproviders /\ wpos <= NumDates
    /\ \E outs \in WizzAnswers, price \in WizzData :
         LET flight_results == search_with_retries(outs, 0) /\ price # 0
             trips == IF flight_results
                        THEN Append(offers_w, Offer(price, 0, wpos))
                        ELSE offers_w
         IN /\ offers_w' = IF wpos = NumDates THEN SortByPrice(trips, <<>>)
                           ELSE trips
            /\ wlimited' = (wlimited /\ outs = AllLimited)
    /\ wpos' = wpos + 1
    /\ UNCHANGED <<fproviders, apos, offers_a, alimited, rpos, flights, offers_r,
                   fweather, fpc, candidates, fresult, fstatus, notFanVars>>

\* The future of a requested provider has its result.
FetchDone(provider) ==
    \/ provider \notin fproviders
    \/ provider = "amadeus" /\ apos > NumDates
    \/ provider = "ryanair" /\ rpos > NumDates + 1
    \/ provider = "wizzair" /\ wpos > NumDates

\* A merge that stops at the first provider that gave nothing.
merge_offers_abort(a, r, w) ==
    IF a = <<>> THEN <<>> ELSE IF r = <<>> THEN a ELSE a \o r \o w
\* candidates = [trip for trip in (offers_a + offers_r + offers_w)
\*               if trip is not None]: no provider puts None in its list.
merge_offers(a, r, w) == a \o r \o w

\* The rest of _process_single_destination once the three futures are in:
\* the merged candidate list and the result, None or the exception.
FanProcess ==
    /\ fpc = "fetch"
    /\ \A provider \in Providers : FetchDone(provider)
    /\ candidates' = merge_offers(offers_a, offers_r, offers_w)
    /\ fresult' = process_single_destination(
                      [offers |-> candidates', weather |-> fweather], 1)
    /\ fpc' = "processed"
    /\ UNCHANGED <<fproviders, apos, offers_a, alimited, rpos, flights, offers_r,
                   wpos, offers_w, wlimited, fweather, fstatus, notFanVars>>

\* search_destinations takes the future's result or logs its exception,
\* ranks and returns; the worker, the job not being cancelled, calls
\* set_done.
FanReturn ==
    /\ fpc = "processed"
    /\ fstatus' = "done"
    /\ fpc' = "returned"
    /\ UNCHANGED <<fproviders, apos, offers_a, alimited, rpos, flights, offers_r,
                   wpos, offers_w, wlimited, fweather, candidates, fresult,
                   notFanVars>>

FanInit ==
    /\ fproviders \in SUBSET Providers
    /\ apos = 1 /\ offers_a = <<>> /\ alimited = TRUE
    /\ rpos = 1 /\ flights = <<>> /\ offers_r = <<>>
    /\ wpos = 1 /\ offers_w = <<>> /\ wlimited = TRUE
    /\ fweather \in [FanDates -> {Warm, WeatherFail}]
    /\ fpc = "fetch" /\ candidates = <<>>
    /\ fresult = NoBest /\ fstatus = "running"
    /\ JobOff /\ RankOff /\ WxOff /\ TtlOff /\ ScoreOff /\ ProgOff /\ RetryOff /\ CntOff /\ DateOff /\ SnapOff

FanNext ==
    \/ AmadeusDate
    \/ RyanairDate
    \/ RyanairFinish
    \/ WizzDate
    \/ FanProcess
    \/ FanReturn

FanSpec == FanInit /\ [][FanNext]_vars

\* The offers Amadeus returned: the tuples that hold a price.
PricedOffers(offers) == SelectSeq(offers, LAMBDA t : t.price # NoPrice)

\* C13: in a run that asked for Amadeus and Wizz Air, when every attempt of
\* one of them was answered 429 and the other returned offers, the
\* candidate list is the offers of the other, a result is produced (one of
\* the offers has weather) and the job ends done.
C13_RateLimitedProviderSkipped ==
    (fpc = "returned" /\ fproviders = {"amadeus", "wizzair"}) =>
        /\ (alimited /\ offers_w # <<>>) =>
              /\ candidates = offers_w
              /\ (\E k \in 1..Len(offers_w) : fweather[offers_w[k].dep].ok)
                    => fresult.found
              /\ fstatus = "done"
        /\ (wlimited /\ PricedOffers(offers_a) # <<>>) =>
              /\ candidates = PricedOffers(offers_a)
              /\ (\A d \in FanDates : fweather[d].ok) => fresult.found
              /\ fstatus = "done"

\* -------------------------------------------------------------------------
\* Which destinations reach the result list of search_destinations.
\* -------------------------------------------------------------------------
\* Entries of the list results for the destination of catalog row i.
Appearances(i) == Cardinality({k \in 1..Len(results) : results[k].city = i})

\* One of the offers of the row has dates whose weather fetch succeeds.
HasResolvableWeather(row) ==
    \E k \in 1..Len(row.offers) :
        row.offers[k].len = 6 /\ row.weather[row.offers[k].dep].ok

\* C14: a destination without offers is never in results, and a destination
\* whose task has completed is in results (before the cut to top_n) exactly
\* once when one of its offers has a resolvable weather summary and not at
\* all otherwise.
C14_ResultIffWeather ==
    \A i \in 1..NumDest :
        /\ catalog[i].offers = <<>> => Appearances(i) = 0
        /\ i \in done =>
             Appearances(i) = (IF HasResolvableWeather(catalog[i]) THEN 1 ELSE 0)
        /\ i \notin done => Appearances(i) = 0

\* C15: a run (not cancelled) in which no destination yields a result ends
\* with status done and an empty result list as payload, never failed.
C15_EmptyRunIsDone ==
    (done = 1..NumDest /\ results = <<>>) =>
        /\ rpc # "raised" /\ rstatus # "failed"
        /\ rpc = "ended" => (rstatus = "done" /\ ranked = <<>>)

\* Such a run has ended; its destinations had no offers, offers without
\* weather, or a task that raised.
C15_Witness ==
    /\ rpc = "ended" /\ results = <<>> /\ rstatus = "done"
    /\ \E i, j \in 1..NumDest :
         /\ catalog[i].offers = <<>>
         /\ catalog[j].offers # <<>> /\ ~HasResolvableWeather(catalog[j])

\* =========================================================================
\* scoring.py: calls of price_score, stop_penalty and total_score on inputs
\* drawn from bounded sets.  Two prices and two stop counts are scored with
\* the same price range and weather, so that the outputs can be compared.
\* =========================================================================
Prices == 0..MaxPrice
StopCounts == (0 - NegStops)..MaxStops

ScoreInit ==
    /\ sPrice \in Prices /\ sPrice2 \in Prices
    /\ sMin \in 1..(MaxPrice - 1) /\ sMax \in 1..(MaxPrice - 1) /\ sMin <= sMax
    /\ sStops \in StopCounts /\ sStops2 \in {sStops + 1, BigStops}
    /\ sWeather \in {Warm, Cold}
    /\ spc = "inputs"
    /\ outPrice = NoScore /\ outPrice2 = NoScore
    /\ outPen = NoScore /\ outPen2 = NoScore
    /\ outTotal = NoScore /\ outTotal2 = NoScore /\ outPass1 = NoScore
    /\ JobOff /\ RankOff /\ WxOff /\ TtlOff /\ FanOff /\ ProgOff /\ RetryOff /\ CntOff /\ DateOff /\ SnapOff

\* price_score(price, min_price, max_price) on the two prices.
ApplyPriceScore ==
    /\ spc = "inputs"
    /\ outPrice' = price_score(sPrice, sMin, sMax)
    /\ outPrice2' = price_score(sPrice2, sMin, sMax)
    /\ spc' = "price"
    /\ UNCHANGED <<sPrice, sPrice2, sMin, sMax, sStops, sStops2, sWeather,
                   outPen, outPen2, outTotal, outTotal2, outPass1, notScoreVars>>

\* stop_penalty(total_stops) on the two stop counts.
ApplyStopPenalty ==
    /\ spc = "price"
    /\ outPen' = stop_penalty(sStops)
    /\ outPen2' = stop_penalty(sStops2)
    /\ spc' = "penalty"
    /\ UNCHANGED <<sPrice, sPrice2, sMin, sMax, sStops, sStops2, sWeather,
                   outPrice, outPrice2, outTotal, outTotal2, outPass1,
                   notScoreVars>>

\* total_score(weather_data, flight_price, total_stops, min_price, max_price)
\* on the two prices.
ApplyTotalScore ==
    /\ spc = "penalty"
    /\ outTotal' = total_score(sWeather, sPrice, sStops, sMin, sMax)
    /\ outTotal2' = total_score(sWeather, sPrice2, sStops, sMin, sMax)
    /\ spc' = "total"
    /\ UNCHANGED <<sPrice, sPrice2, sMin, sMax, sStops, sStops2, sWeather,
                   outPrice, outPrice2, outPen, outPen2, outPass1, notScoreVars>>

\* Pass 1 of a destination whose candidate list is one offer: the price
\* range is taken from price_list.
ApplyPass1 ==
    /\ spc = "total"
    /\ LET price_list == <<sPrice>>
           loc_min_price == SeqMin(price_list, 1)
           loc_max_price == SeqMax(price_list, 1)
       IN outPass1' = price_score(sPrice, loc_min_price, loc_max_price)
    /\ spc' = "scored"
    /\ UNCHANGED <<sPrice, sPrice2, sMin, sMax, sStops, sStops2, sWeather,
                   outPrice, outPrice2, outPen, outPen2, outTotal, outTotal2,
                   notScoreVars>>

ScoreNext ==
    \/ ApplyPriceScore
    \/ ApplyStopPenalty
    \/ ApplyTotalScore
    \/ ApplyPass1

ScoreSpec == ScoreInit /\ [][ScoreNext]_vars

\* C16: for min_price < max_price and a price inside the range, price_score
\* is 100 * (max_price - price) / (max_price - min_price): 100 at min_price,
\* 0 at max_price.
C16_PriceLinearTo0 ==
    (spc # "inputs" /\ sMin < sMax /\ sMin <= sPrice /\ sPrice <= sMax)
        => outPrice = Rat(100 * (sMax - sPrice), sMax - sMin)

\* C17: for min_price < max_price, the same weather and stop count, a price
\* that is not lower gets a total_score that is not higher.
C17_ScoreMonotoneInPrice ==
    (spc \in {"total", "scored"} /\ sMin < sMax /\ sPrice <= sPrice2)
        => RLe(outTotal2, outTotal)

\* Two prices inside the range, the higher one scoring strictly lower.
C17_Witness ==
    /\ spc = "scored" /\ sMin < sPrice /\ sPrice < sPrice2 /\ sPrice2 < sMax
    /\ RLt(outTotal2, outTotal)

\* C18: stop_penalty is at least 0.5 for every stop count, a stop count that
\* is not lower gets a penalty factor that is not higher, and the penalised
\* price component is at least half of the unpenalised one.
C18_StopPenaltyFloor ==
    (spc \in {"penalty", "total", "scored"}) =>
        /\ RLe(Rat(1, 2), outPen) /\ RLe(Rat(1, 2), outPen2)
        /\ RLe(outPen, RInt(1))
        /\ sStops <= sStops2 => RLe(outPen2, outPen)
        /\ RLe(RMul(Rat(1, 2), outPrice), RMul(outPrice, outPen))
        /\ RLe(RMul(Rat(1, 2), outPrice2), RMul(outPrice2, outPen2))

\* A negative stop count (no penalty) beside a very large one (the floor).
C18_Witness ==
    /\ spc = "scored" /\ sStops < 0 /\ sStops2 = BigStops
    /\ outPen = RInt(1) /\ outPen2 = Rat(1, 2)

\* C19: with min_price = max_price, price_score is 100 for every price, and
\* the single offer of a destination gets 100 in pass 1.
C19_EqualRangeIs100 ==
    /\ (spc # "inputs" /\ sMin = sMax)
          => (outPrice = RInt(100) /\ outPrice2 = RInt(100))
    /\ spc = "scored" => outPass1 = RInt(100)

\* An empty price range with prices below and above it.
C19_Witness ==
    /\ spc = "scored" /\ sMin = sMax /\ sPrice < sMin /\ sPrice2 > sMax
    /\ outPrice = RInt(100) /\ outPass1 = RInt(100)

\* C20: the dual write that ends set_done / set_failed, whatever it meets,
\* changes nothing of the job's record and ends the call (the worker goes
\* neither to its except clause nor out of main), and the worker never
\* writes both done and failed for a job.
C20_DualWriteFailureHarmless ==
    /\ [][(wcmds # <<>> /\ Head(wcmds) = "dual_write" /\ wcmds' # wcmds)
            => (trec' = trec /\ tphase' = "finished")]_vars
    /\ [](twrote # {"done", "failed"} /\ tphase # "crashed")

\* set_done has returned after a dual write whose save raised; the record
\* still is done with its payload.
C20_Witness ==
    /\ tphase = "finished" /\ wcmds = <<>> /\ twrote = {"done"}
    /\ dwFault = "save_raises"
    /\ trec.status = "done" /\ "result" \in trec.fields

\* =========================================================================
\* Properties of the worker loop under cancellation and errors (Spec)
\* =========================================================================

\* C21: once progress_cb has observed the cancellation (its nonlocal flag
\* cancelled is True), the pool hands no further destination of that job to
\* _process_single_destination: no destination begins after the observation.
C21_NoDestinationAfterObservedCancel ==
    [][\A w \in workers :
         (wpc[w] = "orch" /\ cancelled[w]) => ~(nextIdx'[w] > nextIdx[w])]_vars

\* C22: when the orchestration raised, the error path of main() ends with
\* the job's status failed and an error in the record, unless the job is
\* cancelled: on a cancelled job the error path (set_failed's hset and hdel)
\* leaves the record as it is, however cancel_job interleaves with the
\* status read of the except clause and with set_failed.
C22_ErrorPathRespectsCancel ==
    [][\A w \in workers :
         LET j == wjob[w]
         IN (wpc[w] \in {"set_failed", "failed_hdel"} /\ wpc'[w] # wpc[w])
              => /\ jobs[j].status = "cancelled" => jobs'[j] = jobs[j]
                 /\ (wpc[w] = "failed_hdel" /\ jobs[j].status # "cancelled")
                      => (jobs'[j].status = "failed" /\ "error" \in jobs'[j].fields)]_vars

\* =========================================================================
\* Properties of one job key (TtlSpec)
\* =========================================================================

\* C23: when the worker has popped the id of a job whose record is
\* cancelled or gone, it goes back to the queue without set_running,
\* without entering the orchestrator and without a command on the job's
\* key, and it never comes back to that job.
C23_CancelledOrGoneIsSkipped ==
    /\ [][(tphase = "get_job" /\ tphase' # tphase
             /\ (~trec.exists \/ trec.status = "cancelled"))
            => (tphase' = "skipped" /\ trec' = trec /\ ttl' = ttl
                  /\ wcmds' = <<>>)]_vars
    /\ [][tphase = "skipped" => (tphase' = "skipped" /\ wcmds' = <<>>)]_vars
    /\ [](tphase = "skipped" => (wcmds = <<>> /\ twrote = {}))

\* The worker has skipped a job it read as cancelled.
C23_Witness ==
    /\ tphase = "skipped" /\ trec.exists /\ trec.status = "cancelled"
    /\ ccmds = <<>>

\* The worker has skipped a job whose record expired while it was queued.
SkippedGone ==
    tphase = "skipped" /\ ~trec.exists /\ lastStatus = "queued"

\* =========================================================================
\* worker.py: the throttle of progress_cb.  The pool threads of one run of
\* search_destinations call progress_cb concurrently; last_update and
\* cancelled are nonlocals they share without a lock.  Every Redis command
\* and every read or write of a nonlocal is one step; the clock advances
\* between any two steps.
\* =========================================================================
\* now - last_update >= 1.0: one second, in clock ticks of half a second.
ThrottleTicks == 2

\* if now - last_update >= 1.0
throttle_open(now, last) == now - last >= ThrottleTicks

\* time passes
PTick ==
    /\ pclock < MaxClock
    /\ pclock' = pclock + 1
    /\ UNCHANGED <<last_update, pcancelled, pstatus, pnext, ppc, pnow,
                   prevStamp, lastStamp, notProgVars>>

\* cancel_job writes status cancelled on the running job.
PCancel ==
    /\ pstatus = "running"
    /\ pstatus' = "cancelled"
    /\ UNCHANGED <<pclock, last_update, pcancelled, pnext, ppc, pnow,
                   prevStamp, lastStamp, notProgVars>>

\* A free pool thread takes the next destination;
\* _process_single_destination calls progress_cb(idx, total, city, airport).
PEnter(t) ==
    /\ ppc[t] = "idle"
    /\ pnext <= Total
    /\ pnext' = pnext + 1
    /\ ppc' = [ppc EXCEPT ![t] = IF pnext % PollEvery = 0 THEN "poll" ELSE "clock"]
    /\ UNCHANGED <<pclock, last_update, pcancelled, pstatus, pnow,
                   prevStamp, lastStamp, notProgVars>>

\* if idx % 10 == 0: job_status = r.hget(key, "status");
\* if job_status == "cancelled": cancelled = True; return
PPoll(t) ==
    /\ ppc[t] = "poll"
    /\ IF pstatus = "cancelled"
         THEN pcancelled' = TRUE /\ ppc' = [ppc EXCEPT ![t] = "idle"]
         ELSE UNCHANGED pcancelled /\ ppc' = [ppc EXCEPT ![t] = "clock"]
    /\ UNCHANGED <<pclock, last_update, pstatus, pnext, pnow,
                   prevStamp, lastStamp, notProgVars>>

\* now = time.monotonic()
PNow(t) ==
    /\ ppc[t] = "clock"
    /\ pnow' = [pnow EXCEPT ![t] = pclock]
    /\ ppc' = [ppc EXCEPT ![t] = "check"]
    /\ UNCHANGED <<pclock, last_update, pcancelled, pstatus, pnext,
                   prevStamp, lastStamp, notProgVars>>

\* if now - last_update >= 1.0: (the read of the shared last_update)
PCheck(t) ==
    /\ ppc[t] = "check"
    /\ ppc' = [ppc EXCEPT ![t] = IF throttle_open(pnow[t], last_update)
                                   THEN "set_progress" ELSE "idle"]
    /\ UNCHANGED <<pclock, last_update, pcancelled, pstatus, pnext, pnow,
                   prevStamp, lastStamp, notProgVars>>

\* set_progress(job_id, idx, total, city, airport, ...): the write to the
\* job store, stamped with the caller's now.
PSetProgress(t) ==
    /\ ppc[t] = "set_progress"
    /\ prevStamp' = lastStamp
    /\ lastStamp' = pnow[t]
    /\ ppc' = [ppc EXCEPT ![t] = "assign"]
    /\ UNCHANGED <<pclock, last_update, pcancelled, pstatus, pnext, pnow,
                   notProgVars>>

\* last_update = now; progress_cb returns and the thread goes on with the
\* destination.
PAssign(t) ==
    /\ ppc[t] = "assign"
    /\ last_update' = pnow[t]
    /\ ppc' = [ppc EXCEPT ![t] = "idle"]
    /\ UNCHANGED <<pclock, pcancelled, pstatus, pnext, pnow,
                   prevStamp, lastStamp, notProgVars>>

\* main() has set last_update = 0.0 and cancelled = False and entered
\* search_destinations; the monotonic clock is at least one second.
ProgInit ==
    /\ pclock = ThrottleTicks /\ last_update = 0 /\ pcancelled = FALSE
    /\ pstatus = "running" /\ pnext = 1
    /\ ppc = [t \in Threads |-> "idle"]
    /\ pnow = [t \in Threads |-> 0]
    /\ prevStamp = NoStamp /\ lastStamp = NoStamp
    /\ JobOff /\ RankOff /\ WxOff /\ TtlOff /\ FanOff /\ ScoreOff /\ RetryOff /\ CntOff /\ DateOff /\ SnapOff

ProgNext ==
    \/ PTick
    \/ PCancel
    \/ \E t \in Threads : PEnter(t)
    \/ \E t \in Threads : PPoll(t)
    \/ \E t \in Threads : PNow(t)
    \/ \E t \in Threads : PCheck(t)
    \/ \E t \in Threads : PSetProgress(t)
    \/ \E t \in Threads : PAssign(t)

ProgSpec == ProgInit /\ [][ProgNext]_vars

\* C24: of any two successive set_progress calls of one job, the second
\* was decided at least one second (ThrottleTicks) after the first, whichever
\* pool threads made them.
C24_ProgressWritesOneSecondApart ==
    prevStamp # NoStamp => lastStamp - prevStamp >= ThrottleTicks

\* =========================================================================
\* Properties of the provider fan-out (FanSpec)
\* =========================================================================
\* The call of a requested provider raised: an exception left
\* get_best_offer_in_window (it returns one tuple per date pair otherwise),
\* or find_cheapest_offer raised on the flights kept.
ProviderRaised(p) ==
    /\ p \in fproviders
    /\ \/ p = "amadeus" /\ apos > NumDates /\ Len(offers_a) < NumDates
       \/ p = "ryanair" /\ rpos > NumDates + 1 /\ find_cheapest_offer(flights).raised
\* Every candidate is a priced 6-tuple.
WellFormed(cands) ==
    \A k \in 1..Len(cands) : cands[k].len = 6 /\ cands[k].price # NoPrice

C26_DatePairFailureSkipsPair ==
    [][/\ apos' # apos =>
            (apos' = apos + 1 /\ SubSeq(offers_a', 1, Len(offers_a)) = offers_a)
       /\ rpos' # rpos =>
            (rpos' = rpos + 1 /\ SubSeq(flights', 1, Len(flights)) = flights)
       /\ wpos' # wpos =>
            (wpos' = wpos + 1 /\ Len(offers_w') >= Len(offers_w))]_vars

\* C27: once the futures are merged, every candidate is a complete offer
\* (a 6-tuple with a price), every date pair for which Ryanair returned
\* flights has its offer in the list, and the candidates are the offers of
\* the requested providers one after the other.
C27_CandidatesAreCompleteOffers ==
    fpc \in {"processed", "returned"} =>
        /\ WellFormed(candidates)
        /\ Len(offers_r) = Len(flights)
        /\ candidates = offers_a \o offers_r \o offers_w

\* =========================================================================
\* providers/: the retry wrappers.  One call of a wrapper and of the
\* function around it: _get_with_retries inside
\* get_cheapest_offer_for_dates (Amadeus), _search_with_retries (Wizz Air),
\* _get_json_with_retries inside get_weather_data (weather).  One step is
\* one upstream request with the handling of its answer.
\* =========================================================================
\* _get_json_with_retries(url, *, retries=3).
WeatherRetries == 3

\* What the upstream may answer one request with: success, rate limiting
\* (429), a server error (5xx), a client error (4xx: bad request, unknown
\* airport, failed auth) or no answer at all (connection error, timeout).
Answers == {"ok", "429", "5xx", "4xx", "neterr"}
\* The Retry-After header of an Amadeus answer, in half seconds, when there
\* is one.
NoHint == 0 - 1
RetryAfterHints == {NoHint, 7}

RECURSIVE Pow2(_)
Pow2(n) == IF n = 0 THEN 1 ELSE 2 * Pow2(n - 1)
\* base_sleep * (2 ** attempt) with base_sleep = 1.0 (Amadeus, Wizz Air) and
\* 0.5 * (2 ** attempt) (weather), in half seconds.
backoff(who, k) == (IF who = "weather" THEN 1 ELSE 2) * Pow2(k)

\* A loop that runs once more than range() allows.
in_range_inclusive(k, n) == k <= n
\* for attempt in range(n)
in_range(k, n) == k < n
\* The length of the range each wrapper loops over.
attempt_range(who) ==
    IF who = "amadeus" THEN AmadeusMaxRetries + 1
    ELSE IF who = "wizzair" THEN WizzMaxRetries + 1
    ELSE WeatherRetries

\* A test that takes no answer for rate limiting.
is_rate_limited_never(code) == FALSE
\* status == 429 (Amadeus); code == 429 or "429" in msg or
\* "too many requests" in msg (Wizz Air).
is_rate_limited(code) == code = "429"

\* A wrapper that retries whatever is not a success.
retry_worthy_all(ans) == ans # "ok"
\* if resp.status_code in (429, 500, 502, 503, 504)
retry_worthy(ans) == ans \in {"429", "5xx"}

\* _get_with_retries, one turn of the loop: resp = _SESSION.get(...); a
\* status below 400 is returned; 429 and 5xx sleep (Retry-After or the
\* backoff), keep the HTTPError and continue; another status raises it; an
\* exception of _SESSION.get itself leaves the function.
AmadeusAttempt ==
    /\ rwho = "amadeus" /\ rphase = "loop"
    /\ in_range(ratt, attempt_range(rwho))
    /\ \E ans \in Answers, retry_after \in RetryAfterHints :
         /\ rans' = ans
         /\ rall429' = (rall429 /\ ans = "429")
         /\ IF ans = "ok"
              THEN /\ rphase' = "wrapper_returned"
                   /\ UNCHANGED <<ratt, rlastExc, rsleeps>>
            ELSE IF retry_worthy(ans)
              THEN /\ rsleeps' = Append(rsleeps,
                                   IF retry_after # NoHint THEN retry_after
                                   ELSE backoff(rwho, ratt))
                   /\ rlastExc' = ans
                   /\ ratt' = ratt + 1
                   /\ UNCHANGED rphase
            ELSE /\ rphase' = "wrapper_raised"
                 /\ rlastExc' = ans
                 /\ UNCHANGED <<ratt, rsleeps>>
    /\ rattempts' = rattempts + 1
    /\ UNCHANGED <<rwho, rlast429, rerr429, rerrOther, rresult, notRetryVars>>

\* _get_with_retries, out of retries: raise last_exc.
AmadeusGiveUp ==
    /\ rwho = "amadeus" /\ rphase = "loop"
    /\ ~in_range(ratt, attempt_range(rwho))
    /\ rphase' = "wrapper_raised"
    /\ UNCHANGED <<rwho, ratt, rattempts, rans, rlastExc, rlast429, rall429,
                   rsleeps, rerr429, rerrOther, rresult, notRetryVars>>

\* get_cheapest_offer_for_dates around the wrapper: the response goes on to
\* be parsed; except requests.HTTPError: a 429 counts one give-up and
\* returns (None, None, None, None), another status is re-raised; an
\* exception that is no HTTPError passes through.
AmadeusCaller ==
    /\ rwho = "amadeus" /\ rphase \in {"wrapper_returned", "wrapper_raised"}
    /\ IF rphase = "wrapper_returned"
         THEN rresult' = "response" /\ UNCHANGED rerr429
       ELSE IF rlastExc # "neterr" /\ is_rate_limited(rlastExc)
         THEN rresult' = "none" /\ rerr429' = rerr429 + 1
       ELSE rresult' = "raised" /\ UNCHANGED rerr429
    /\ rphase' = "finished"
    /\ UNCHANGED <<rwho, ratt, rattempts, rans, rlastExc, rlast429, rall429,
                   rsleeps, rerrOther, notRetryVars>>

\* _search_with_retries, one turn of the loop: the search returns its
\* results; an exception that is rate limiting sleeps the backoff and
\* continues; any other exception counts an error and returns None.
WizzAttempt ==
    /\ rwho = "wizzair" /\ rphase = "loop"
    /\ in_range(ratt, attempt_range(rwho))
    /\ \E ans \in Answers :
         /\ rans' = ans
         /\ rall429' = (rall429 /\ ans = "429")
         /\ IF ans = "ok"
              THEN /\ rresult' = "response" /\ rphase' = "finished"
                   /\ UNCHANGED <<ratt, rlast429, rsleeps, rerrOther>>
            ELSE IF is_rate_limited(ans)
              THEN /\ rlast429' = TRUE
                   /\ rsleeps' = Append(rsleeps, backoff(rwho, ratt))
                   /\ ratt' = ratt + 1
                   /\ UNCHANGED <<rphase, rresult, rerrOther>>
            ELSE /\ rerrOther' = rerrOther + 1
                 /\ rresult' = "none" /\ rphase' = "finished"
                 /\ UNCHANGED <<ratt, rlast429, rsleeps>>
    /\ rattempts' = rattempts + 1
    /\ UNCHANGED <<rwho, rlastExc, rerr429, notRetryVars>>

\* _search_with_retries after the loop: if last_was_429 the give-up counter
\* is incremented; return None.
WizzGiveUp ==
    /\ rwho = "wizzair" /\ rphase = "loop"
    /\ ~in_range(ratt, attempt_range(rwho))
    /\ rerr429' = IF rlast429 THEN rerr429 + 1 ELSE rerr429
    /\ rresult' = "none" /\ rphase' = "finished"
    /\ UNCHANGED <<rwho, ratt, rattempts, rans, rlastExc, rlast429, rall429,
                   rsleeps, rerrOther, notRetryVars>>

\* _get_json_with_retries, one turn of the loop: the JSON is returned; every
\* RequestException (raise_for_status on any status of 400 and above, a
\* connection error) is kept, the backoff is slept.
WeatherAttempt ==
    /\ rwho = "weather" /\ rphase = "loop"
    /\ in_range(ratt, attempt_range(rwho))
    /\ \E ans \in Answers :
         /\ rans' = ans
         /\ rall429' = (rall429 /\ ans = "429")
         /\ IF ans = "ok"
              THEN /\ rresult' = "response" /\ rphase' = "finished"
                   /\ UNCHANGED <<ratt, rlastExc, rsleeps>>
              ELSE /\ rlastExc' = ans
                   /\ rsleeps' = Append(rsleeps, backoff(rwho, ratt))
                   /\ ratt' = ratt + 1
                   /\ UNCHANGED <<rphase, rresult>>
    /\ rattempts' = rattempts + 1
    /\ UNCHANGED <<rwho, rlast429, rerr429, rerrOther, notRetryVars>>

\* _get_json_with_retries after the loop: raise last_exc; get_weather_data
\* lets it pass.
WeatherGiveUp ==
    /\ rwho = "weather" /\ rphase = "loop"
    /\ ~in_range(ratt, attempt_range(rwho))
    /\ rresult' = "raised" /\ rphase' = "finished"
    /\ UNCHANGED <<rwho, ratt, rattempts, rans, rlastExc, rlast429, rall429,
                   rsleeps, rerr429, rerrOther, notRetryVars>>

RetryInit ==
    /\ rwho \in {"amadeus", "wizzair", "weather"}
    /\ rphase = "loop" /\ ratt = 0 /\ rattempts = 0
    /\ rans = "none" /\ rlastExc = "none" /\ rlast429 = FALSE
    /\ rall429 = TRUE /\ rsleeps = <<>> /\ rerr429 = 0 /\ rerrOther = 0
    /\ rresult = "none"
    /\ JobOff /\ RankOff /\ WxOff /\ TtlOff /\ FanOff /\ ScoreOff /\ ProgOff /\ CntOff /\ DateOff /\ SnapOff

RetryNext ==
    \/ AmadeusAttempt
    \/ AmadeusGiveUp
    \/ AmadeusCaller
    \/ WizzAttempt
    \/ WizzGiveUp
    \/ WeatherAttempt
    \/ WeatherGiveUp

\* Every request has a timeout and every sleep ends: a call that can take
\* its next step takes it.
RetrySpec == RetryInit /\ [][RetryNext]_vars /\ WF_vars(RetryNext)

\* The attempt cap of each wrapper.
AttemptCap ==
    IF rwho = "amadeus" THEN AmadeusMaxRetries + 1
    ELSE IF rwho = "wizzair" THEN WizzMaxRetries + 1
    ELSE WeatherRetries

\* C28: a call issues at most 4 (Amadeus), 6 (Wizz Air), 3 (weather)
\* upstream requests; with the cap reached the wrapper's next step leaves
\* the loop; every call ends, returning or raising.
C28_RetryLoopsBounded ==
    /\ [](rattempts <= AttemptCap)
    /\ [][(rphase = "loop" /\ rattempts = AttemptCap) => rphase' # "loop"]_vars
    /\ <>(rphase = "finished")

\* A Wizz Air search has ended after six requests, none of them answered.
C28_Witness ==
    /\ rphase = "finished" /\ rattempts = AttemptCap /\ rans # "ok"
    /\ rwho = "wizzair" /\ rresult = "none"

\* The sleeps a 429 answer to the request of turn k may be followed by.
RateLimitSleeps(k) ==
    {backoff(rwho, k)}
      \cup (IF rwho = "amadeus" THEN RetryAfterHints \ {NoHint} ELSE {})

\* C29: in every wrapper a request answered by a server error (5xx) or not
\* answered at all (network error) is handled as a rate-limited one: the
\* same sleep, then the next turn of the same loop.
C29_TransientRetriedLikeRateLimit ==
    [][(rattempts' = rattempts + 1 /\ rans' \in {"5xx", "neterr"})
         => /\ rphase' = "loop" /\ ratt' = ratt + 1
            /\ Len(rsleeps') = Len(rsleeps) + 1
            /\ rsleeps'[Len(rsleeps')] \in RateLimitSleeps(ratt)]_vars

\* C30: a provider call all of whose requests, up to the cap, were answered
\* 429 ends without an exception, with the no-offer value, and has
\* incremented the provider's 429 give-up counter once.
C30_RateLimitGiveUp ==
    (rphase = "finished" /\ rwho \in {"amadeus", "wizzair"}
       /\ rall429 /\ rattempts = AttemptCap)
    => (rresult = "none" /\ rerr429 = 1 /\ rerrOther = 0)

\* An Amadeus request answered 429 four times has given up.
C30_Witness ==
    /\ rphase = "finished" /\ rwho = "amadeus" /\ rall429
    /\ rattempts = AttemptCap /\ rresult = "none" /\ rerr429 = 1

\* C31: in the Amadeus and the Wizz Air wrapper a request answered by a
\* fatal status (4xx other than 429) is the last of the call: the loop is
\* left at once, without a sleep and without another request.
C31_FatalEndsCallAtOnce ==
    /\ [][(rattempts' = rattempts + 1 /\ rans' = "4xx"
             /\ rwho \in {"amadeus", "wizzair"})
            => (rphase' # "loop" /\ rsleeps' = rsleeps /\ ratt' = ratt)]_vars
    /\ []((rans = "4xx" /\ rwho \in {"amadeus", "wizzair"}) => rphase # "loop")

\* An Amadeus request answered 400 has ended after that one request.
C31_Witness ==
    /\ rphase = "finished" /\ rwho = "amadeus" /\ rans = "4xx"
    /\ rattempts = 1 /\ rsleeps = <<>> /\ rresult = "raised"

\* =========================================================================
\* providers/: the call counters.  The pool threads of search_destinations
\* run provider calls concurrently; each call starts with
\* _CALLS[...] += 1 on the dict of the provider module, a read of the item
\* followed by a store, with no lock around them.  A thread switch may fall
\* between the two; the schedule in which it never does is one of the
\* behaviours.
\* =========================================================================
\* _CALLS["flight_offers"] += 1, the read: BINARY_SUBSCR.
CntRead(t) ==
    /\ kpc[t] = "idle" /\ kdone[t] < MaxCalls
    /\ kreg' = [kreg EXCEPT ![t] = CALLS]
    /\ kpc' = [kpc EXCEPT ![t] = "store"]
    /\ UNCHANGED <<CALLS, issued, kdone, notCntVars>>

\* _CALLS["flight_offers"] += 1, the store: STORE_SUBSCR of the value read
\* plus one.
CntStore(t) ==
    /\ kpc[t] = "store"
    /\ CALLS' = kreg[t] + 1
    /\ kpc' = [kpc EXCEPT ![t] = "request"]
    /\ UNCHANGED <<issued, kreg, kdone, notCntVars>>

\* The upstream request the increment counts (_get_with_retries,
\* SearchFlights().search).
CntRequest(t) ==
    /\ kpc[t] = "request"
    /\ issued' = issued + 1
    /\ kdone' = [kdone EXCEPT ![t] = @ + 1]
    /\ kpc' = [kpc EXCEPT ![t] = "idle"]
    /\ UNCHANGED <<CALLS, kreg, notCntVars>>

\* The module is imported: the counter is 0.
CntInit ==
    /\ CALLS = 0 /\ issued = 0
    /\ kpc = [t \in Threads |-> "idle"]
    /\ kreg = [t \in Threads |-> 0]
    /\ kdone = [t \in Threads |-> 0]
    /\ JobOff /\ RankOff /\ WxOff /\ TtlOff /\ FanOff /\ ScoreOff /\ ProgOff /\ DateOff /\ SnapOff
    /\ RetryOff

CntNext ==
    \/ \E t \in Threads : CntRead(t)
    \/ \E t \in Threads : CntStore(t)
    \/ \E t \in Threads : CntRequest(t)

CntSpec == CntInit /\ [][CntNext]_vars

\* C32: whenever no increment is in flight, the provider's call counter is
\* the number of upstream calls issued.
C32_NoLostIncrement ==
    (\A t \in Threads : kpc[t] = "idle") => CALLS = issued

\* =========================================================================
\* Properties of the weather cache (WxSpec)
\* =========================================================================

\* C33: when get_weather_data raises for a key, weather_cache holds no entry
\* for the key after the step and the thread has no weather for the
\* candidate (it is skipped); a later lookup of a key that is not in the
\* cache goes to get_weather_data again.
C33_FailedFetchNotCached ==
    /\ [][\A t \in Threads :
            (lpc[t] = "fetch" /\ fails'[cache_key[t]] = fails[cache_key[t]] + 1)
               => /\ cache_miss(weather_cache', cache_key[t])
                  /\ ~weatherInfo'[t].ok
                  /\ lpc'[t] = "loop"]_vars
    /\ [][\A t \in Threads :
            (lpc[t] = "locked" /\ lpc'[t] # "locked"
               /\ fails[cache_key[t]] > 0
               /\ cache_miss(weather_cache, cache_key[t]))
               => /\ lpc'[t] = "fetch"
                  /\ calls'[cache_key[t]] = calls[cache_key[t]] + 1]_vars

\* A key whose first fetch failed was fetched again by a later lookup, and
\* that fetch is in the cache.
C33_Witness ==
    \E k \in WxKeys :
        /\ fails[k] = 1 /\ calls[k] = 2 /\ weather_cache[k].ok
        /\ \A t \in Threads : lpc[t] = "loop"

\* =========================================================================
\* Properties of the second scoring pass and the cut to top_n (RankSpec).
\* =========================================================================
\* The representative prices of the Destination Results of the run.
ResultPrices == {results[i].flight_price : i \in 1..Len(results)}
GlobalMinPrice == CHOOSE p \in ResultPrices : \A q \in ResultPrices : p <= q
GlobalMaxPrice == CHOOSE p \in ResultPrices : \A q \in ResultPrices : p >= q

\* The final score of the i-th collected result: its representative offer
\* scored against the global price range.
FinalScore(i) ==
    total_score(results[i].weather_data, results[i].flight_price,
                results[i].total_stops, GlobalMinPrice, GlobalMaxPrice)

\* The pass-1 score of the i-th collected result: the same offer scored
\* against the price range of its own destination's candidates.
LocalScore(i) ==
    LET offers == catalog[results[i].city].offers
        price_list == [k \in 1..Len(offers) |-> offers[k].price]
    IN total_score(results[i].weather_data, results[i].flight_price,
                   results[i].total_stops,
                   SeqMin(price_list, 1), SeqMax(price_list, 1))

SameScore(a, b) == RLe(a, b) /\ RLe(b, a)

\* C34: every score of the returned list is the score of that result's
\* representative offer against the minimum and maximum representative
\* price over all results of the run, taken before the cut to top_n.
C34_ScoresUseGlobalRange ==
    rpc = "returned" =>
        \A k \in 1..Len(ranked) :
            \E i \in 1..Len(results) :
                /\ results[i].city = ranked[k].city
                /\ ranked[k].flight_price = results[i].flight_price
                /\ SameScore(ranked[k].score, FinalScore(i))

\* A returned entry whose final score differs from its pass-1 score, in a
\* run whose cut dropped a result.
C34_Witness ==
    /\ rpc = "returned"
    /\ Len(ranked) < Len(results)
    /\ \E k \in 1..Len(ranked) :
          \E i \in 1..Len(results) :
              /\ results[i].city = ranked[k].city
              /\ ~SameScore(LocalScore(i), FinalScore(i))

\* C35: the returned list is ordered by final score descending, it has
\* min(top_n, number of results) entries, and no result left out of it has
\* a strictly higher final score than an entry of it.
C35_TopNByScore ==
    rpc = "returned" =>
        /\ \A a, b \in 1..Len(ranked) :
              a < b => RLe(ranked[b].score, ranked[a].score)
        /\ Len(ranked) = (IF topN < Len(results) THEN topN ELSE Len(results))
        /\ \A i \in 1..Len(results) :
              (\A k \in 1..Len(ranked) : ranked[k].city # results[i].city)
                 => \A k \in 1..Len(ranked) :
                       ~RLt(ranked[k].score, FinalScore(i))

\* A returned list that leaves a result of strictly lower score out and
\* holds entries of different scores.
C35_Witness ==
    /\ rpc = "returned"
    /\ Len(ranked) >= 2
    /\ RLt(ranked[Len(ranked)].score, ranked[1].score)
    /\ \E i \in 1..Len(results) :
          /\ \A k \in 1..Len(ranked) : ranked[k].city # results[i].city
          /\ RLt(FinalScore(i), ranked[Len(ranked)].score)

\* =========================================================================
\* providers/: one provider's walk over the date window of a destination.
\* Days are day numbers; dlog holds every query handed to the provider's
\* upstream client (a retry wrapper's call counts once), as the pair of
\* days it carries.
\* =========================================================================
PerDateProviders == {"amadeus", "ryanair", "wizzair"}

\* last_start = end_dt - timedelta(days=trip_length);
\* latest_departure_dt = to_date_dt - timedelta(days=trip_length).
latest_departure == to_date - trip_length

\* One turn of `while d <= last_start` in get_best_offer_in_window:
\* get_cheapest_offer_for_dates(origin, destination, dep, ret, trip_length)
\* is called for the tuple that is unpacked and called again for the tuple
\* that is appended to offers. Either call may re-raise an HTTPError.
AmadeusWindowTurn ==
    /\ dwho = "amadeus" /\ dpc = "loop" /\ cursor <= latest_departure
    /\ \E outcome \in {"ok", "first raises", "second raises"} :
         LET dep == cursor
             ret == cursor + trip_length
         IN /\ dlog' = IF outcome = "first raises"
                         THEN Append(dlog, <<dep, ret>>)
                         ELSE dlog \o << <<dep, ret>>, <<dep, ret>> >>
            /\ dpc' = IF outcome = "ok" THEN "loop" ELSE "raised"
            /\ cursor' = IF outcome = "ok" THEN cursor + 1 ELSE cursor
    /\ UNCHANGED <<dwho, airport_known, from_date, to_date, trip_length,
                   notDateVars>>

\* One turn of the loop of get_cheapest_ryanair_offer_for_dates: one
\* api.get_cheapest_return_flights call with date_from = date_to = the day
\* and both return dates the day + trip_length; the function catches nothing.
RyanairWindowTurn ==
    /\ dwho = "ryanair" /\ dpc = "loop" /\ cursor <= latest_departure
    /\ \E raises \in BOOLEAN :
         /\ dlog' = Append(dlog, <<cursor, cursor + trip_length>>)
         /\ dpc' = IF raises THEN "raised" ELSE "loop"
         /\ cursor' = IF raises THEN cursor ELSE cursor + 1
    /\ UNCHANGED <<dwho, airport_known, from_date, to_date, trip_length,
                   notDateVars>>

\* One turn of the loop of _find_cheapest_trip_simple: a KeyError of
\* Airport[...] skips the day before any search; otherwise one
\* _search_with_retries call for (dep, ret), which returns None on failure.
WizzWindowTurn ==
    /\ dwho = "wizzair" /\ dpc = "loop" /\ cursor <= latest_departure
    /\ dlog' = IF airport_known
                 THEN Append(dlog, <<cursor, cursor + trip_length>>)
                 ELSE dlog
    /\ cursor' = cursor + 1
    /\ UNCHANGED <<dwho, airport_known, from_date, to_date, trip_length, dpc,
                   notDateVars>>

\* The loop condition fails (for get_best_offer_in_window also the early
\* `if last_start < start_dt: return None`): the function returns.
WindowReturn ==
    /\ dwho \in PerDateProviders /\ dpc = "loop" /\ cursor > latest_departure
    /\ dpc' = "returned"
    /\ UNCHANGED <<dwho, airport_known, from_date, to_date, trip_length, cursor,
                   dlog, notDateVars>>

\* A provider function is called with a window and a trip length; the API
\* accepts trip lengths from 1 day.
DateInit ==
    /\ dwho \in PerDateProviders
    /\ airport_known \in BOOLEAN
    /\ from_date \in 0..1
    /\ to_date \in 0..MaxWindow
    /\ trip_length \in 1..MaxTrip
    /\ cursor = from_date /\ dlog = <<>> /\ dpc = "loop"
    /\ JobOff /\ RankOff /\ WxOff /\ TtlOff /\ FanOff /\ ScoreOff /\ ProgOff /\ SnapOff
    /\ RetryOff /\ CntOff

DateNext ==
    \/ AmadeusWindowTurn
    \/ RyanairWindowTurn
    \/ WizzWindowTurn
    \/ WindowReturn

DateSpec == DateInit /\ [][DateNext]_vars

\* The date pairs of the window: (d, d + trip_length) for every day d from
\* the start of the window to its end less the trip length.
DatePairs ==
    {<<d, d + trip_length>> : d \in from_date..(to_date - trip_length)}
\* How many of the queries issued carry the pair q.
QueryCount(q) == Cardinality({k \in 1..Len(dlog) : dlog[k] = q})

\* C36: a per-date provider that has walked its window has queried the date
\* pairs of the window and nothing else, each pair exactly once, and has
\* queried nothing when the window is shorter than the trip.
C36_OneQueryPerDatePair ==
    (dwho \in PerDateProviders /\ dpc = "returned") =>
        /\ \A k \in 1..Len(dlog) : dlog[k] \in DatePairs
        /\ \A q \in DatePairs : QueryCount(q) = 1

\* =========================================================================
\* wizzair_test.py: _find_cheapest_trip_with_searchdates, the SearchDates
\* calls over the range of departure days. dlog holds the windows searched,
\* as <<window start, window end>>.
\* =========================================================================
MAX_DAYS_PER_SEARCH == 61

\* effective_from = from_date_dt; effective_to = latest_departure_dt.
effective_from == from_date
effective_to == latest_departure
\* total_days = (effective_to - effective_from).days + 1.
total_days == effective_to - effective_from + 1

\* window_end_dt = min(current_start + timedelta(days=60), effective_to).
window_end_dt(current_start) ==
    Min2(current_start + (MAX_DAYS_PER_SEARCH - 1), effective_to)

\* A step to the day after the window's last possible day plus one.
next_start_gap(current_start) == current_start + (MAX_DAYS_PER_SEARCH + 1)
\* current_start = current_start + timedelta(days=MAX_DAYS_PER_SEARCH - 1).
next_start(current_start) == current_start + (MAX_DAYS_PER_SEARCH - 1)

\* if latest_departure_dt < from_date_dt: return [].
SearchDatesNoTrip ==
    /\ dwho = "searchdates" /\ dpc = "loop"
    /\ latest_departure < from_date
    /\ dpc' = "returned"
    /\ UNCHANGED <<dwho, airport_known, from_date, to_date, trip_length, cursor,
                   dlog, notDateVars>>

\* if total_days <= MAX_DAYS_PER_SEARCH: one search from from_date to
\* effective_to. Airport[...] of an unknown code raises KeyError.
SearchDatesSingle ==
    /\ dwho = "searchdates" /\ dpc = "loop"
    /\ latest_departure >= from_date
    /\ total_days <= MAX_DAYS_PER_SEARCH
    /\ IF airport_known
         THEN dlog' = <<<<from_date, effective_to>>>> /\ dpc' = "searched"
         ELSE dlog' = dlog /\ dpc' = "raised"
    /\ UNCHANGED <<dwho, airport_known, from_date, to_date, trip_length, cursor,
                   notDateVars>>

\* One turn of `while current_start <= effective_to`: the window from
\* current_start to window_end_dt is searched, current_start moves on.
SearchDatesWindow ==
    /\ dwho = "searchdates" /\ dpc = "loop"
    /\ total_days > MAX_DAYS_PER_SEARCH
    /\ cursor <= effective_to
    /\ IF airport_known
         THEN /\ dlog' = Append(dlog, <<cursor, window_end_dt(cursor)>>)
              /\ cursor' = next_start(cursor)
              /\ dpc' = dpc
         ELSE dlog' = dlog /\ cursor' = cursor /\ dpc' = "raised"
    /\ UNCHANGED <<dwho, airport_known, from_date, to_date, trip_length,
                   notDateVars>>

\* The loop condition fails: the windows are searched, the function goes on
\* to deduplicate and verify what they gave.
SearchDatesLoopEnd ==
    /\ dwho = "searchdates" /\ dpc = "loop"
    /\ total_days > MAX_DAYS_PER_SEARCH
    /\ cursor > effective_to
    /\ dpc' = "searched"
    /\ UNCHANGED <<dwho, airport_known, from_date, to_date, trip_length, cursor,
                   dlog, notDateVars>>

SplitInit ==
    /\ dwho = "searchdates"
    /\ airport_known \in BOOLEAN
    /\ from_date \in 0..1
    /\ to_date \in 0..MaxSpan
    /\ trip_length \in 1..MaxTrip
    /\ cursor = from_date /\ dlog = <<>> /\ dpc = "loop"
    /\ JobOff /\ RankOff /\ WxOff /\ TtlOff /\ FanOff /\ ScoreOff /\ ProgOff /\ SnapOff
    /\ RetryOff /\ CntOff

SplitNext ==
    \/ SearchDatesNoTrip
    \/ SearchDatesSingle
    \/ SearchDatesWindow
    \/ SearchDatesLoopEnd

\* The function runs on its own thread until it returns or raises.
SplitSpec == SplitInit /\ [][SplitNext]_vars /\ WF_vars(SplitNext)

\* The splitting branch is the one taken.
RangeIsSplit == dwho = "searchdates" /\ total_days > MAX_DAYS_PER_SEARCH

\* C37: when the range of departure days is longer than 61 days the
\* splitting loop ends; every window it searched spans at most 61 days and
\* lies inside the range; once it has ended every departure day of the
\* range lies in a window.
C37_WindowSplitCovers ==
    /\ [](RangeIsSplit =>
            \A k \in 1..Len(dlog) :
                /\ dlog[k][1] <= dlog[k][2]
                /\ dlog[k][2] - dlog[k][1] + 1 <= MAX_DAYS_PER_SEARCH
                /\ effective_from <= dlog[k][1]
                /\ dlog[k][2] <= effective_to)
    /\ []((RangeIsSplit /\ dpc = "searched") =>
            \A day \in effective_from..effective_to :
                \E k \in 1..Len(dlog) : dlog[k][1] <= day /\ day <= dlog[k][2])
    /\ <>(dpc # "loop")

\* A range of more than 121 days has been searched in three windows.
C37_Witness ==
    /\ RangeIsSplit /\ dpc = "searched"
    /\ Len(dlog) = 3
    /\ total_days > 2 * MAX_DAYS_PER_SEARCH - 1

\* =========================================================================
\* Properties of two workers on one queue (TwoWorkerSpec).
\* =========================================================================
\* The ids in the queue.
Queued == {queue[k] : k \in 1..Len(queue)}

\* C38: with two worker loops on the queue an id enters the queue only by
\* its own enqueue and a pop takes it out, so that an id a worker pops is
\* held by no other worker and was never marked running before; no id is
\* held, and so marked running or orchestrated, by two workers, and a
\* worker holds one id at a time.
C38_PoppedByOneWorker ==
    /\ [](\A w1, w2 \in workers :
            (w1 # w2 /\ wjob[w1] # 0) => wjob[w1] # wjob[w2])
    /\ [](\A w \in workers : wjob[w] # 0 => wjob[w] \notin Queued)
    /\ [][\A w \in workers :
            (wpc[w] = "pop" /\ wpc'[w] = "get_job")
               => /\ wjob'[w] = Head(queue)
                  /\ wjob'[w] \notin {queue'[k] : k \in 1..Len(queue')}
                  /\ \A o \in workers \ {w} : wjob[o] # wjob'[w]
                  /\ jobs[wjob'[w]].status \in {"queued", "cancelled"}]_vars
    /\ [][\A j \in JobIds :
            (j \in {queue'[k] : k \in 1..Len(queue')} /\ j \notin Queued)
               => j = nextId /\ nextId' = nextId + 1]_vars
    /\ [][\A w \in workers :
            (wjob[w] # 0 /\ wjob'[w] # wjob[w]) => wjob'[w] = 0]_vars

\* Both workers orchestrate, each its own job.
C38_Witness ==
    /\ wpc["w1"] = "orch" /\ wpc["w2"] = "orch"
    /\ wjob["w1"] # wjob["w2"]
    /\ jobs[wjob["w1"]].status = "running" /\ jobs[wjob["w2"]].status = "running"

\* =========================================================================
\* Properties of the queue under enqueue, cancel_job and the worker (Spec).
\* =========================================================================
\* C39: under every interleaving of enqueue, cancel_job and the worker's
\* pop, a job id occurs at most once in the queue, and the record of every
\* id in the queue, if it exists, has status queued.
C39_QueueHoldsQueuedJobsOnce ==
    /\ \A a, b \in 1..Len(queue) : a # b => queue[a] # queue[b]
    /\ \A k \in 1..Len(queue) :
          jobs[queue[k]].exists => jobs[queue[k]].status = "queued"

\* A cancel_job call has taken its id out of the queue and is about to mark
\* it cancelled, another id waits in the queue, the worker is between pops.
C39_Witness ==
    /\ Len(queue) = 1
    /\ cpc = "hset" /\ cjob \notin Queued
    /\ jobs[cjob].status = "queued"
    /\ jobs[queue[1]].status = "queued"

\* =========================================================================
\* worker.py / kv_queue.py: the progress snapshots of one run.  The pool
\* threads of search_destinations call progress_cb(idx, total, ...) with
\* the idx of the destination they took; the callback that finds the
\* throttle open writes (idx, total) with set_progress.  The catalog here is
\* shorter than PollEvery, so `idx % 10 == 0` holds for no destination and
\* the status poll is not reached.
\* =========================================================================
\* A free pool thread takes the next destination (enumerate(destinations,
\* start=1), handed out in order); _process_single_destination calls
\* progress_cb(idx, total, city, airport).
SnapEnter(t) ==
    /\ snpc[t] = "idle"
    /\ snext <= SnapTotal
    /\ sidx' = [sidx EXCEPT ![t] = snext]
    /\ snext' = snext + 1
    /\ snpc' = [snpc EXCEPT ![t] = "clock"]
    /\ UNCHANGED <<sclock, slast, snow, snapshots, notSnapVars>>

\* The monotonic clock advances.
SnapTick ==
    /\ sclock < MaxClock
    /\ sclock' = sclock + 1
    /\ UNCHANGED <<slast, snext, snpc, sidx, snow, snapshots, notSnapVars>>

\* now = time.monotonic()
SnapNow(t) ==
    /\ snpc[t] = "clock"
    /\ snow' = [snow EXCEPT ![t] = sclock]
    /\ snpc' = [snpc EXCEPT ![t] = "check"]
    /\ UNCHANGED <<sclock, slast, snext, sidx, snapshots, notSnapVars>>

\* if now - last_update >= 1.0:
SnapCheck(t) ==
    /\ snpc[t] = "check"
    /\ snpc' = [snpc EXCEPT ![t] = IF throttle_open(snow[t], slast)
                                   THEN "set_progress" ELSE "idle"]
    /\ UNCHANGED <<sclock, slast, snext, sidx, snow, snapshots, notSnapVars>>

\* set_progress(job_id, idx, total, ...): HSET processed = idx, total = total.
SnapSetProgress(t) ==
    /\ snpc[t] = "set_progress"
    /\ snapshots' = Append(snapshots, [processed |-> sidx[t], total |-> SnapTotal])
    /\ snpc' = [snpc EXCEPT ![t] = "assign"]
    /\ UNCHANGED <<sclock, slast, snext, sidx, snow, notSnapVars>>

\* last_update = now; the callback returns.
SnapAssign(t) ==
    /\ snpc[t] = "assign"
    /\ slast' = snow[t]
    /\ snpc' = [snpc EXCEPT ![t] = "idle"]
    /\ UNCHANGED <<sclock, snext, sidx, snow, snapshots, notSnapVars>>

\* main() has set last_update = 0.0 and entered search_destinations; the
\* monotonic clock is at least one second.
SnapInit ==
    /\ sclock = ThrottleTicks /\ slast = 0 /\ snext = 1
    /\ snpc = [t \in Threads |-> "idle"]
    /\ sidx = [t \in Threads |-> 0]
    /\ snow = [t \in Threads |-> 0]
    /\ snapshots = <<>>
    /\ JobOff /\ RankOff /\ WxOff /\ TtlOff /\ FanOff /\ ScoreOff /\ ProgOff
    /\ RetryOff /\ CntOff /\ DateOff

SnapNext ==
    \/ SnapTick
    \/ \E t \in Threads : SnapEnter(t)
    \/ \E t \in Threads : SnapNow(t)
    \/ \E t \in Threads : SnapCheck(t)
    \/ \E t \in Threads : SnapSetProgress(t)
    \/ \E t \in Threads : SnapAssign(t)

SnapSpec == SnapInit /\ [][SnapNext]_vars

\* Every snapshot written has 1 <= processed <= total.
SnapshotsInRange ==
    \A k \in 1..Len(snapshots) :
        1 <= snapshots[k].processed /\ snapshots[k].processed <= snapshots[k].total

\* C40: every progress snapshot written for the job has
\* 1 <= processed <= total, and processed does not decrease from one
\* set_progress write to the next.
C40_ProcessedInRangeAndMonotone ==
    /\ SnapshotsInRange
    /\ \A k \in 1..(Len(snapshots) - 1) :
          snapshots[k].processed <= snapshots[k + 1].processed

====
